---- MODULE Spec2Model ----
(***************************************************************************)
(* Model of the question-answering handler of api/chat.js: input check,    *)
(* data loading, outline search, candidate scope, query embedding, hybrid  *)
(* ranking, page selection and context assembly, and the JSON / SSE        *)
(* responses.  One action per segment of the async handler between two     *)
(* await points.  The library functions are also called on their own, and  *)
(* the file-based dictionary API of api/dict is modelled with two          *)
(* requests in flight, as is the chat handler itself.                      *)
(*                                                                         *)
(* Representation.                                                         *)
(*  - A page text is a record [chars, pad, words]: chars is the length of  *)
(*    the trimmed text, pad the number of surrounding whitespace           *)
(*    characters, words[t] the number of whole-word occurrences of token t *)
(*    in the normalised text.                                              *)
(*  - Embeddings are integer vectors; cosineSim is kept in units of        *)
(*    1/SimScale.                                                          *)
(*  - embNorm, lexNorm and finalScore are rationals with a denominator     *)
(*    that is the same for all candidates of one ranking; the model keeps  *)
(*    the numerators, so that comparisons are exact.                       *)
(***************************************************************************)
EXTENDS Integers, Sequences, FiniteSets, TLC

VARIABLES
    pc,               \* position of the handler: the await it is suspended at
    req,              \* the request (method, stream flags, question, audio)
    res,              \* the response object (status, body kind, ended)
    events,           \* SSE events written so far
    logs,             \* the request's log store (section titles)
    calls,            \* number of calls made to each external service
    question,         \* question after trim / transcription
    pages,            \* parsed abramede_texto.json
    pageEmbeddings,   \* parsed abramede_embeddings.json
    sumario,          \* parsed sumario_final.json
    pageMap,          \* Map pagina -> texto
    embByPage,        \* Map pagina -> embedding
    pagesFromSummary, \* summaryResult.pages
    searchScope,      \* "global" | "scoped"
    candidatePages,   \* candidate page numbers
    queryEmb,         \* embedding of the question
    ranked,           \* ranked candidates
    selectedPages,    \* top-N page numbers
    limitedPages,     \* final page list (used_pages)
    contextText,      \* assembled context: sequence of blocks
    call,             \* a library function called on its own: name and arguments
    ret,              \* what that call returned
    dictFile,         \* data/dictionary.json: the stored items
    dictReqs,         \* the requests to /api/dict in flight
    peers,            \* the locals of two chat requests in flight together
    alsStores         \* AsyncLocalStorage: the store of each async context

vars == <<pc, req, res, events, logs, calls, question, pages, pageEmbeddings,
          sumario, pageMap, embByPage, pagesFromSummary, searchScope,
          candidatePages, queryEmb, ranked, selectedPages, limitedPages,
          contextText, call, ret, dictFile, dictReqs, peers, alsStores>>

----------------------------------------------------------------------------
(* Bounds of the model *)

MaxPage == 4
MaxRange == 2
CapPages == 12
MaxTopics == 2
BigPages == 11
PageChars == 40
HugeChars == 130000

(* Program constants *)

EXPAND_CONTEXT == FALSE
ADJACENT_RANGE == 0
TOP_PAGES_TO_SELECT == 9
MAX_CONTEXT_PAGES == 10
MAX_CONTEXT_CHARS == 120000
SimScale == 100

----------------------------------------------------------------------------
(* Generic helpers *)

Min(a, b) == IF a < b THEN a ELSE b
Range(s) == {s[i] : i \in 1..Len(s)}

RECURSIVE SumSeq(_)
SumSeq(s) == IF s = <<>> THEN 0 ELSE Head(s) + SumSeq(Tail(s))

\* Array.prototype.filter
\* (keep is the set of elements the predicate accepts)
FilterSeq(s, keep) ==
    LET F[i \in 0..Len(s)] ==
            IF i = 0 THEN <<>>
            ELSE IF s[i] \in keep THEN Append(F[i - 1], s[i]) ELSE F[i - 1]
    IN F[Len(s)]

\* Array.prototype.slice(0, n)
Slice(s, n) == SubSeq(s, 1, Min(n, Len(s)))

\* x goes in front of the first element that the comparator puts after it
\* (cmp is the comparator as a function of the pair it is given)
InsertSorted(acc, x, cmp) ==
    LET later == {j \in 1..Len(acc) : cmp[<<acc[j], x>>] > 0}
        k == IF later = {} THEN Len(acc) + 1
             ELSE CHOOSE j \in later : \A i \in later : j <= i
    IN SubSeq(acc, 1, k - 1) \o <<x>> \o SubSeq(acc, k, Len(acc))

\* Array.prototype.sort(cmp): a stable sort
Sort(s, cmp) ==
    LET S[i \in 0..Len(s)] ==
            IF i = 0 THEN <<>> ELSE InsertSorted(S[i - 1], s[i], cmp)
    IN S[Len(s)]

\* (a, b) => a - b
NumAsc(a, b) == a - b

\* Array.from(set).sort((a, b) => a - b)
RECURSIVE SetToSortedSeq(_)
SetToSortedSeq(S) ==
    IF S = {} THEN <<>>
    ELSE LET m == CHOOSE x \in S : \A y \in S : x <= y
         IN <<m>> \o SetToSortedSeq(S \ {m})

----------------------------------------------------------------------------
(* The data files the handler reads *)

Tokens == {"rcp", "sepse"}

NoWords == [t \in Tokens |-> 0]
EmptyText == [chars |-> 0, pad |-> 0, words |-> NoWords]
BlankText == [chars |-> 0, pad |-> 3, words |-> NoWords]

\* text of page p: the token "rcp" occurs p % 3 times, "sepse" never
PlainText(p, n) ==
    [chars |-> n, pad |-> 1, words |-> [t \in Tokens |-> IF t = "rcp" THEN p % 3 ELSE 0]]

E1 == <<1, 0>>
E2 == <<0, 1>>
E3 == <<-1, 0>>

\* page embeddings: "cyclic" spreads three directions over the pages,
\* "same" gives every page the same vector (the degenerate corpus)
PageVector(p, layout) ==
    IF layout = "same" THEN E1
    ELSE IF p % 3 = 0 THEN E1 ELSE IF p % 3 = 1 THEN E2 ELSE E3

DefectKinds == {"noText", "noEmb", "absent", "dup"}

\* text profile tp = [kind, page]
TextOf(p, tp) ==
    IF tp.kind = "empty" /\ p = tp.page THEN EmptyText
    ELSE IF tp.kind = "blank" /\ p = tp.page THEN BlankText
    ELSE IF tp.kind = "huge" /\ p = tp.page THEN PlainText(p, HugeChars)
    ELSE IF tp.kind = "emptyTop" /\ p <= tp.page THEN EmptyText
    ELSE PlainText(p, PageChars)

\* abramede_texto.json: [{pagina, texto}], ascending, page d left out when
\* the defect says so
BookFile(n, d, tp) ==
    LET B[p \in 0..n] ==
            IF p = 0 THEN <<>>
            ELSE IF p = d.page /\ d.kind \in {"noText", "absent"} THEN B[p - 1]
            ELSE Append(B[p - 1], [pagina |-> p, texto |-> TextOf(p, tp)])
    IN B[n]

\* abramede_embeddings.json: [{pagina, embedding}]; page d has no entry
\* (noEmb, absent) or two entries (dup)
EmbFile(n, d, layout) ==
    LET e(p) == [pagina |-> p, embedding |-> PageVector(p, layout)]
        F[p \in 0..n] ==
            IF p = 0 THEN <<>>
            ELSE IF p = d.page /\ d.kind \in {"noEmb", "absent"} THEN F[p - 1]
            ELSE IF p = d.page /\ d.kind = "dup" THEN F[p - 1] \o <<e(p), e(p)>>
            ELSE Append(F[p - 1], e(p))
    IN F[n]

\* sumario_final.json: one section with one category (pages 1, 2) whose
\* topics are the single pages 1..n+1; topic 1 has a subtopic without pages
\* and topic 2 a subtopic with pages 2, 3
SumFile(n) ==
    LET topic(k) ==
            [paginas |-> <<k>>,
             subtopicos |-> IF k = 1 THEN << [paginas |-> <<>>] >>
                            ELSE IF k = 2 THEN << [paginas |-> <<2, 3>>] >>
                            ELSE <<>>]
    IN << [categorias |->
            << [paginas |-> <<1, 2>>,
                topicos |-> [k \in 1..(n + 1) |-> topic(k)]] >>] >>

NoDefect == [kind |-> "none", page |-> 0]
Plain == [kind |-> "plain", page |-> 0]

World(n, d, tp, layout, sum) ==
    [book |-> BookFile(n, d, tp), emb |-> EmbFile(n, d, layout), sum |-> sum]

\* corpora of MaxPage pages: one defective page, or one page with special
\* text under either embedding layout
SmallWorlds ==
    { World(MaxPage, d, Plain, "cyclic", SumFile(MaxPage)) :
        d \in [kind : DefectKinds, page : 1..MaxPage] }
    \cup
    { World(MaxPage, NoDefect, tp, layout, SumFile(MaxPage)) :
        tp \in {Plain, [kind |-> "blank", page |-> MaxPage],
                [kind |-> "huge", page |-> 1]}
               \cup [kind : {"empty"}, page : 1..MaxPage],
        layout \in {"cyclic", "same"} }

\* the same corpus with an empty outline, and a corpus without any page
NoOutlineWorlds ==
    { World(MaxPage, NoDefect, Plain, layout, <<>>) : layout \in {"cyclic", "same"} }
    \cup { World(0, NoDefect, Plain, "same", SumFile(MaxPage)) }

\* corpora of BigPages pages, more than TOP_PAGES_TO_SELECT: all pages with
\* text, or the first TOP_PAGES_TO_SELECT pages empty
BigWorlds ==
    { World(BigPages, NoDefect, tp, layout, SumFile(BigPages)) :
        tp \in {Plain, [kind |-> "emptyTop", page |-> TOP_PAGES_TO_SELECT]},
        layout \in {"cyclic", "same"} }

\* An outline node is a record; a field the JSON leaves out is a field the
\* record does not have, and a null in the place of a node is NullNode.
NullNode == [isNull |-> TRUE]
IsNull(node) == "isNull" \in DOMAIN node

\* an outline with a null in the place of its second topic
BrokenSumFile ==
    << [categorias |->
          << [paginas |-> <<1, 2>>,
              topicos |-> << [paginas |-> <<1>>], NullNode >>] >>] >>

\* the corpus of MaxPage pages with that outline
BrokenOutlineWorlds == { World(MaxPage, NoDefect, Plain, "cyclic", BrokenSumFile) }

\* a book whose embeddings file has no entry at all
NoEmbeddingWorlds ==
    { [book |-> BookFile(MaxPage, NoDefect, Plain), emb |-> <<>>, sum |-> SumFile(MaxPage)] }

Worlds == SmallWorlds \cup NoOutlineWorlds \cup BrokenOutlineWorlds
          \cup NoEmbeddingWorlds \cup BigWorlds

----------------------------------------------------------------------------
(* lib/similarity.js, lib/text.js *)

\* a.reduce((s, v, i) => s + v * b[i], 0): the indices are those of a; past
\* the end of b the factor b[i] is undefined and the sum is NaN
dotIsNaN(a, b) == Len(a) > Len(b)
dot(a, b) == SumSeq([i \in 1..Len(a) |-> a[i] * b[i]])

\* Math.sqrt on the sums of squares that occur
Sqrt(n) == CHOOSE r \in 0..n : r * r <= n /\ n < (r + 1) * (r + 1)
norm(a) == Sqrt(SumSeq([i \in 1..Len(a) |-> a[i] * a[i]]))

\* dot / (norm(a) * norm(b) + 1e-8), in units of 1/SimScale; the 1e-8 makes
\* the quotient 0 when a norm is 0 and is below the unit otherwise
cosineSim(a, b) ==
    IF norm(a) * norm(b) = 0 THEN 0
    ELSE (dot(a, b) * SimScale) \div (norm(a) * norm(b))

\* number of whole-word matches of the token in the normalised text
countOccurrences(txt, t) == IF t \in DOMAIN txt.words THEN txt.words[t] ELSE 0

\* String.prototype.trim on the question strings of the model
Trim(s) == IF s = "   " THEN "" ELSE s

\* Array.from(new Set(qNorm.split(/\W+/).filter(t => t && t.length > 2)))
\* for the one-word questions of the model
QTokens(q) == IF Trim(q) = "" THEN <<>> ELSE <<Trim(q)>>

----------------------------------------------------------------------------
(* lib/context.js *)

\* the expansion without the pageMap.has tests
expandWithAdjacentPages_unclipped(selected, pmap, range) ==
    SetToSortedSeq(UNION {(page - range)..(page + range) : page \in Range(selected)})

expandWithAdjacentPages(selected, pmap, range) ==
    LET expandedSet ==
            UNION { {page} \cup {page - i : i \in {j \in 1..range : (page - j) \in DOMAIN pmap}}
                           \cup {page + i : i \in {j \in 1..range : (page + j) \in DOMAIN pmap}} :
                    page \in Range(selected) }
    IN SetToSortedSeq(expandedSet)

----------------------------------------------------------------------------
(* semanticSearchSummary *)

RECURSIVE ConcatAll(_)
ConcatAll(ss) == IF ss = <<>> THEN <<>> ELSE Head(ss) \o ConcatAll(Tail(ss))

\* node.f || []  (and node.f?.length for a missing f)
Field(node, f) == IF f \in DOMAIN node THEN node[f] ELSE <<>>

\* the traversal reads a property of null: TypeError, caught as structureError
StructureThrows(sum) ==
    \E s \in 1..Len(sum) :
        IF IsNull(sum[s]) THEN TRUE
        ELSE \E c \in 1..Len(Field(sum[s], "categorias")) :
            LET cat == Field(sum[s], "categorias")[c]
            IN IF IsNull(cat) THEN TRUE
               ELSE \E t \in 1..Len(Field(cat, "topicos")) :
                   LET top == Field(cat, "topicos")[t]
                   IN IF IsNull(top) THEN TRUE
                      ELSE \E u \in 1..Len(Field(top, "subtopicos")) :
                               IsNull(Field(top, "subtopicos")[u])

FlatItem(node, level) ==
    IF Len(Field(node, "paginas")) > 0
    THEN << [paginas |-> node.paginas, level |-> level] >>
    ELSE <<>>

FlatTopic(top) ==
    LET subs == Field(top, "subtopicos")
    IN FlatItem(top, "topico")
       \o ConcatAll([i \in 1..Len(subs) |-> FlatItem(subs[i], "subtopico")])

FlatCategory(cat) ==
    LET tops == Field(cat, "topicos")
    IN FlatItem(cat, "categoria")
       \o ConcatAll([i \in 1..Len(tops) |-> FlatTopic(tops[i])])

\* flatStructure: one record per category, topic and subtopic with pages;
\* nothing is kept of it when the traversal throws
FlatStructure(sum) ==
    IF StructureThrows(sum) THEN <<>>
    ELSE ConcatAll([s \in 1..Len(sum) |->
             LET cats == Field(sum[s], "categorias")
             IN ConcatAll([c \in 1..Len(cats) |-> FlatCategory(cats[c])])])

\* relevant_indices of the model's reply: nothing, one id, two ids whose
\* page lists overlap, an id that is out of range
ReplyIds(sum) ==
    LET n == Len(FlatStructure(sum))
    IN {<<>>, <<0, 1>>, <<n>>} \cup {<<k>> : k \in 0..Min(n - 1, MaxPage + 1)}

\* summaryIndex: [idx, categoria, topico or "-", subtopico or "-", number of
\* pages]; the three names are kept as the level of the record
SummaryIndex(flat) ==
    [i \in 1..Len(flat) |->
        [id |-> i - 1, level |-> flat[i].level, count |-> Len(flat[i].paginas)]]

\* relevantPaths: one entry per selected id that is in range, in reply order
SummaryPaths(sum, reply) ==
    LET flat == FlatStructure(sum)
        ok == FilterSeq(reply, {idx \in Range(reply) : idx >= 0 /\ idx < Len(flat)})
    IN [i \in 1..Len(ok) |-> [id |-> ok[i], pages_count |-> Len(flat[ok[i] + 1].paginas)]]

\* the ids taken as positions counted from 1
SummaryPages_fromOne(sum, reply) ==
    LET flat == FlatStructure(sum)
        ids == {reply[i] : i \in 1..Len(reply)}
        ok == {idx \in ids : idx >= 1 /\ idx <= Len(flat)}
    IN SetToSortedSeq(UNION {Range(flat[idx].paginas) : idx \in ok})

\* pages: the union of the page lists of the selected ids, ascending
SummaryPages(sum, reply) ==
    LET flat == FlatStructure(sum)
        ids == {reply[i] : i \in 1..Len(reply)}
        ok == {idx \in ids : idx >= 0 /\ idx < Len(flat)}
    IN SetToSortedSeq(UNION {Range(flat[idx + 1].paginas) : idx \in ok})

----------------------------------------------------------------------------
(* api/chat.js, keyword search in the outline: buildSummaryIndex and       *)
(* searchSummary.  A string is the sequence of its characters; a           *)
(* precomposed accented letter is written letter+mark, and a combining     *)
(* mark by its name.                                                       *)

CombiningMarks == {"cedilla", "tilde", "acute"}

\* String.prototype.toLowerCase on the capitals that occur
LowerCase_toggle(c) ==
    IF c = "R" THEN "r" ELSE IF c = "r" THEN "R" ELSE c

LowerCase(c) ==
    IF c = "R" THEN "r" ELSE IF c = "C" THEN "c" ELSE IF c = "P" THEN "p"
    ELSE IF c = "S" THEN "s" ELSE IF c = "C+cedilla" THEN "c+cedilla" ELSE c

\* normalize("NFD") of one character: letter and mark apart
Decompose(c) ==
    IF c = "c+cedilla" THEN <<"c", "cedilla">>
    ELSE IF c = "C+cedilla" THEN <<"C", "cedilla">>
    ELSE IF c = "a+tilde" THEN <<"a", "tilde">>
    ELSE IF c = "i+acute" THEN <<"i", "acute">>
    ELSE <<c>>

\* s.toLowerCase().normalize("NFD").replace(/[\u0300-\u036f]/g, "")
normalizeStr(str) ==
    LET nfd == ConcatAll([i \in 1..Len(str) |-> Decompose(LowerCase(str[i]))])
    IN FilterSeq(nfd, Range(nfd) \ CombiningMarks)

\* (s || ""): null, undefined and the empty string give the empty string
OrEmpty(arg) == IF arg.kind = "string" THEN arg.chars ELSE <<>>

\* String.prototype.trim
TrimStr(str) ==
    LET inked == {i \in 1..Len(str) : str[i] # " "}
    IN IF inked = {} THEN <<>>
       ELSE SubSeq(str, CHOOSE i \in inked : \A j \in inked : i <= j,
                        CHOOSE i \in inked : \A j \in inked : j <= i)

\* str.split(/\W+/).filter(Boolean): the runs of letters
SplitWords(str) ==
    LET W[i \in 0..Len(str)] ==
            IF i = 0 THEN <<>>
            ELSE LET before == W[i - 1]
                 IN IF str[i] = " " THEN before
                    ELSE IF i > 1 /\ str[i - 1] # " "
                    THEN [before EXCEPT ![Len(before)] = Append(@, str[i])]
                    ELSE Append(before, <<str[i]>>)
    IN W[Len(str)]

\* String.prototype.includes
Includes(str, key) ==
    \E i \in 0..(Len(str) - Len(key)) : SubSeq(str, i + 1, i + Len(key)) = key

NeedleRCP ==
    <<"r", "e", "s", "s", "u", "s", "c", "i", "t", "a", "c", "a", "o", " ",
      "c", "a", "r", "d", "i", "o", "p", "u", "l", "m", "o", "n", "a", "r">>

\* the curated keys given the pages of "ressuscitacao cardiopulmonar"
CuratedKeys ==
    { <<"m", "a", "s", "s", "a", "g", "e", "m", " ", "c", "a", "r", "d", "i",
        "a", "c", "a">>,
      <<"c", "o", "m", "p", "r", "e", "s", "s", "a", "o", " ", "t", "o", "r",
        "a", "c", "i", "c", "a">>,
      <<"c", "o", "m", "p", "r", "e", "s", "s", "o", "e", "s", " ", "t", "o",
        "r", "a", "c", "i", "c", "a", "s">>,
      <<"c", "p", "r">>,
      <<"p", "a", "r", "a", "d", "a", " ", "c", "a", "r", "d", "i", "o", "r",
        "r", "e", "s", "p", "i", "r", "a", "t", "o", "r", "i", "a">>,
      <<"r", "e", "s", "s", "u", "s", "c", "i", "t", "a", "c", "a", "o", " ",
        "c", "a", "r", "d", "i", "o", "p", "u", "l", "m", "o", "n", "a", "r">>,
      <<"r", "c", "p">> }

\* the first subtopic, in outline order, whose normalised title is the
\* needle: its pages, [] when it has none or when there is no such subtopic
findPagesBySubtopicTitle(sumario_, needleNorm) ==
    LET hits == { <<t, u>> \in UNION { {<<t, u>> : u \in 1..Len(sumario_[t].subtopicos)} :
                                       t \in 1..Len(sumario_) } :
                    normalizeStr(sumario_[t].subtopicos[u].titulo) = needleNorm }
    IN IF hits = {} THEN <<>>
       ELSE LET first == CHOOSE h \in hits :
                             \A g \in hits : h[1] < g[1] \/ (h[1] = g[1] /\ h[2] <= g[2])
            IN sumario_[first[1]].subtopicos[first[2]].paginas

\* the calls of addKey, as pairs <<key, pages>>
KeyAdds(sumario_) ==
    LET stPages(t, u) ==
            IF Len(sumario_[t].subtopicos[u].paginas) > 0
            THEN sumario_[t].subtopicos[u].paginas ELSE sumario_[t].paginas
        acronym(title) ==
            LET tokens == SplitWords(normalizeStr(title))
            IN IF Len(tokens) >= 2 THEN {[i \in 1..Len(tokens) |-> tokens[i][1]]} ELSE {}
        rcpPages == findPagesBySubtopicTitle(sumario_, NeedleRCP)
    IN { <<sumario_[t].topico, sumario_[t].paginas>> : t \in 1..Len(sumario_) }
       \cup UNION { UNION { { <<k, stPages(t, u)>> :
                                k \in {sumario_[t].subtopicos[u].titulo}
                                      \cup acronym(sumario_[t].subtopicos[u].titulo) } :
                            u \in 1..Len(sumario_[t].subtopicos) } :
                    t \in 1..Len(sumario_) }
       \cup (IF Len(rcpPages) > 0 THEN { <<k, rcpPages>> : k \in CuratedKeys } ELSE {})

\* index: Map from normalised, trimmed, non-empty key to its set of pages
buildSummaryIndex(sumario_) ==
    LET adds == { <<TrimStr(normalizeStr(a[1])), a[2]>> : a \in KeyAdds(sumario_) }
        keys == { a[1] : a \in adds } \ { <<>> }
    IN [k \in keys |-> UNION { Range(a[2]) : a \in {b \in adds : b[1] = k} }]

\* the pages of every key the normalised query includes, ascending
searchSummary(sumario_, query) ==
    LET idx == buildSummaryIndex(sumario_)
        nq == normalizeStr(query)
    IN SetToSortedSeq(UNION { idx[key] : key \in {k \in DOMAIN idx : Includes(nq, k)} })

----------------------------------------------------------------------------
(* api/chat.js: the pure parts of the handler *)

\* pageMap.get(p) || ""
PageText(pmap, p) == IF p \in DOMAIN pmap THEN pmap[p] ELSE EmptyText

\* new Map(pages.map(p => [p.pagina, p.texto])): the last entry of a page wins
MapOf(file, field) ==
    [p \in {file[i].pagina : i \in 1..Len(file)} |->
        LET last == CHOOSE i \in 1..Len(file) :
                        /\ file[i].pagina = p
                        /\ \A j \in 1..Len(file) : file[j].pagina = p => j <= i
        IN file[last][field]]

AdjacentOffsets_wide == {-3, -2, -1, 1, 2, 3}

\* [-2, -1, 1, 2]
AdjacentOffsets == {-2, -1, 1, 2}

\* Etapa 3: candidatePages and searchScope
CandidateScope(pfs, pmap, emb, pembs) ==
    IF Len(pfs) > 0
    THEN LET expandedSet ==
                 Range(pfs)
                 \cup {adjacent \in {p + o : p \in Range(pfs), o \in AdjacentOffsets} :
                          adjacent \in DOMAIN pmap}
         IN [candidatePages |-> SetToSortedSeq({p \in expandedSet : p \in DOMAIN emb}),
             searchScope |-> "scoped"]
    ELSE LET all == [i \in 1..Len(pembs) |-> pembs[i].pagina]
         IN [candidatePages |-> FilterSeq(all, {p \in Range(all) : p \in DOMAIN pmap}),
             searchScope |-> "global"]

\* Etapa 5: one record per candidate that has an embedding.  nan says that
\* embScore is NaN; the number in embScore then stands for nothing.
Prelim(cands, pmap, emb, qEmb, q, pfs) ==
    LET rec(pg) ==
            LET txt == PageText(pmap, pg)
                toks == QTokens(q)
            IN [pagina |-> pg,
                nan |-> dotIsNaN(qEmb, emb[pg]),
                embScore |-> IF dotIsNaN(qEmb, emb[pg]) THEN 0
                             ELSE cosineSim(qEmb, emb[pg]),
                lexScore |-> SumSeq([i \in 1..Len(toks) |-> countOccurrences(txt, toks[i])]),
                inSummary |-> pg \in Range(pfs)]
        kept == FilterSeq(cands, {pg \in Range(cands) : pg \in DOMAIN emb})
    IN [i \in 1..Len(kept) |-> rec(kept[i])]

\* the scores that take part in minEmb and maxEmb: NaN < x and NaN > x are
\* false for every x
EmbScores(prelim) == {r.embScore : r \in {x \in Range(prelim) : ~x.nan}}

\* minEmb and maxEmb, for a list with a score that is not NaN
MinEmb(prelim) == CHOOSE m \in EmbScores(prelim) : \A x \in EmbScores(prelim) : m <= x
MaxEmb(prelim) == CHOOSE m \in EmbScores(prelim) : \A x \in EmbScores(prelim) : m >= x
MaxLex(prelim) == CHOOSE m \in {r.lexScore : r \in Range(prelim)} \cup {0} :
                      \A r \in Range(prelim) : m >= r.lexScore

\* weights and boost in hundredths
EmbWeight_swapped(scope) == IF scope = "scoped" THEN 70 ELSE 80

EmbWeight(scope) == IF scope = "scoped" THEN 80 ELSE 70
SummaryBoost(inSummary, scope) ==
    IF inSummary THEN (IF scope = "scoped" THEN 30 ELSE 8) ELSE 0

\* (a, b) => (b.finalScore - a.finalScore) || (a.pagina - b.pagina); a
\* difference that is NaN is falsy
RankCmp(a, b) ==
    IF ~a.nan /\ ~b.nan /\ b.finalScore - a.finalScore # 0
    THEN b.finalScore - a.finalScore
    ELSE a.pagina - b.pagina

\* Etapa 6.  embNorm = embNum / embDen, lexNorm = lexNum / lexDen and
\* finalScore = finalScore / (100 * embDen * lexDen), embDen and lexDen being
\* the same for all candidates.  For a record with nan, embNorm and
\* finalScore are NaN as well and their numbers stand for nothing.
Ranked(prelim, scope) ==
    IF prelim = <<>> THEN <<>>
    ELSE
    LET allNaN == EmbScores(prelim) = {}
        minEmb == IF allNaN THEN 0 ELSE MinEmb(prelim)
        maxEmb == IF allNaN THEN 0 ELSE MaxEmb(prelim)
        maxLex == MaxLex(prelim)
        embDen == IF maxEmb - minEmb > 0 THEN maxEmb - minEmb ELSE 1
        lexDen == IF maxLex > 0 THEN maxLex ELSE 1
        score(r) ==
            LET embNum == IF r.nan THEN 0 ELSE r.embScore - minEmb
                lexNum == IF maxLex > 0 THEN r.lexScore ELSE 0
                embWeight == EmbWeight(scope)
                lexWeight == 100 - embWeight
            IN [pagina |-> r.pagina, nan |-> r.nan,
                embScore |-> r.embScore, lexScore |-> r.lexScore,
                inSummary |-> r.inSummary,
                embNorm |-> embNum, lexNorm |-> lexNum,
                embDen |-> embDen, lexDen |-> lexDen,
                finalScore |-> embWeight * embNum * lexDen + lexWeight * lexNum * embDen
                               + SummaryBoost(r.inSummary, scope) * embDen * lexDen]
        scored == [i \in 1..Len(prelim) |-> score(prelim[i])]
    IN Sort(scored, [ab \in Range(scored) \X Range(scored) |-> RankCmp(ab[1], ab[2])])

\* Etapa 7: ranked.slice(0, Math.min(TOP_PAGES_TO_SELECT, ranked.length)).map(r => r.pagina)
SelectedPages(rk) ==
    LET top == Slice(rk, Min(TOP_PAGES_TO_SELECT, Len(rk)))
    IN [i \in 1..Len(top) |-> top[i].pagina]

FinalPages(selected, pmap) ==
    IF EXPAND_CONTEXT THEN expandWithAdjacentPages(selected, pmap, ADJACENT_RANGE)
    ELSE selected

\* finalPages.filter(p => (pageMap.get(p) || "").trim())
NonEmptyPages(final, pmap) ==
    FilterSeq(final, {p \in Range(final) : PageText(pmap, p).chars > 0})

\* the comparator turned round
ScoreDesc_ascending(a, b) == a.score - b.score

\* (a, b) => b.score - a.score
ScoreDesc(a, b) == b.score - a.score

\* the MAX_CONTEXT_PAGES cap
LimitedPages(nonEmpty, rk) ==
    IF Len(nonEmpty) > MAX_CONTEXT_PAGES
    THEN LET scoreOf(p) ==
                 LET hits == {i \in 1..Len(rk) : rk[i].pagina = p}
                 IN IF hits = {} THEN 0
                    ELSE rk[CHOOSE i \in hits : \A j \in hits : i <= j].finalScore
             withScore == [i \in 1..Len(nonEmpty) |->
                              [pagina |-> nonEmpty[i], score |-> scoreOf(nonEmpty[i])]]
             pagesWithScore ==
                 Sort(withScore,
                      [ab \in Range(withScore) \X Range(withScore) |-> ScoreDesc(ab[1], ab[2])])
             kept == Slice(pagesWithScore, MAX_CONTEXT_PAGES)
             keptPages == [i \in 1..Len(kept) |-> kept[i].pagina]
         IN Sort(keptPages,
                 [ab \in Range(keptPages) \X Range(keptPages) |-> NumAsc(ab[1], ab[2])])
    ELSE nonEmpty

\* Etapa 8: one block per page, "--- Página p ---\n" + trimmed text + "\n"
ContextBlocks(limited, pmap) ==
    [i \in 1..Len(limited) |->
        [pagina |-> limited[i], chars |-> PageText(pmap, limited[i]).chars]]

Digits(p) == IF p < 10 THEN 1 ELSE IF p < 100 THEN 2 ELSE 3

\* length of one block
BlockLength(b) == 16 + Digits(b.pagina) + b.chars + 1

\* contextText.length: the blocks joined by "\n"
ContextLength(ctx) ==
    IF ctx = <<>> THEN 0
    ELSE SumSeq([i \in 1..Len(ctx) |-> BlockLength(ctx[i])]) + (Len(ctx) - 1)

----------------------------------------------------------------------------
(* api/chat.js: the handler *)

Questions == {"", "   ", "rcp", "sepse"}
\* embedding of the question: of the length of the page embeddings, or
\* shorter or longer (another embedding model than the one of the corpus)
ShortQuery == <<1>>
LongQuery == <<1, 0, 0>>
QueryVecs == {E1, E2, ShortQuery, LongQuery}

\* POST requests in JSON mode or in streaming mode asked for in one of the
\* three ways; audio comes only with a blank question; one GET request
Requests ==
    { r \in [method : {"POST"}, stream : BOOLEAN, qstream : BOOLEAN, accept : BOOLEAN,
             question : Questions, audio : BOOLEAN] :
        /\ Cardinality({f \in {"stream", "qstream", "accept"} : r[f]}) <= 1
        /\ r.audio => (r.question = "   ") }
    \cup { [method |-> "GET", stream |-> FALSE, qstream |-> FALSE, accept |-> FALSE,
            question |-> "", audio |-> FALSE] }

NoRequest == [method |-> "", stream |-> FALSE, qstream |-> FALSE, accept |-> FALSE,
              question |-> "", audio |-> FALSE]

NoResponse == [status |-> 0, headersSent |-> FALSE, body |-> "none", book |-> "none",
               used_pages |-> <<>>, ended |-> FALSE, failed |-> FALSE]

NoCalls == [transcribe |-> 0, readFile |-> 0, summary |-> 0, embeddings |-> 0,
            chat |-> 0, dict |-> 0]

dataVars == <<pages, pageEmbeddings, sumario, pageMap, embByPage>>
scopeVars == <<pagesFromSummary, searchScope, candidatePages>>
rankVars == <<queryEmb, ranked, selectedPages, limitedPages, contextText>>

unitVars == <<call, ret>>
apiVars == <<dictFile, dictReqs, peers, alsStores>>

\* no library function is called on its own during a request
NoCall == [fn |-> "none"]

\* ids of the requests to /api/dict
DictProcs == {1, 2}

\* a request to /api/dict that has not arrived
NoDictRequest ==
    [pc |-> "idle", method |-> "", id |-> 0, valid |-> FALSE, items |-> <<>>, status |-> 0]

\* the dictionary file with one item, no request to /api/dict
DictAtRest ==
    /\ dictFile = <<[id |-> 1, titulo |-> "a"]>>
    /\ dictReqs = [p \in DictProcs |-> NoDictRequest]

\* the two chat requests handled together, each in its own async context
IsoProcs == {1, 2}

\* the locals of a chat request that has not arrived
NoPeer ==
    [pc |-> "idle", question |-> "", sumOut |-> [kind |-> "empty", ids |-> <<>>],
     queryEmb |-> <<>>, searchScope |-> "unset", candidatePages |-> <<>>,
     usedPages |-> <<>>, context |-> <<>>, body |-> "none", logs |-> <<>>]

\* an async context that no store was entered in
NoStore == [enabled |-> FALSE, logs |-> <<>>]

PeersAtRest ==
    /\ peers = [p \in IsoProcs |-> NoPeer]
    /\ alsStores = [p \in IsoProcs |-> NoStore]

\* the handler's locals before a request
Fresh ==
    /\ req = NoRequest
    /\ res = NoResponse
    /\ events = <<>>
    /\ logs = <<>>
    /\ calls = NoCalls
    /\ question = ""
    /\ pages = <<>>
    /\ pageEmbeddings = <<>>
    /\ sumario = <<>>
    /\ pageMap = <<>>
    /\ embByPage = <<>>
    /\ pagesFromSummary = <<>>
    /\ searchScope = "unset"
    /\ candidatePages = <<>>
    /\ queryEmb = <<>>
    /\ ranked = <<>>
    /\ selectedPages = <<>>
    /\ limitedPages = <<>>
    /\ contextText = <<>>

Init ==
    /\ pc = "idle"
    /\ Fresh
    /\ call = NoCall
    /\ ret = <<>>
    /\ DictAtRest
    /\ PeersAtRest

wantsSSE(r) == r.stream \/ r.qstream \/ r.accept

\* the catch block: error and done events when the body or the Accept header
\* asked for a stream, else status 500 with a JSON body (which cannot be sent
\* once the event-stream headers are out)
Catch(ev, rs) ==
    /\ pc' = "done"
    /\ IF req.stream \/ req.accept
       THEN /\ events' = ev \o <<"error", "done">>
            /\ res' = [rs EXCEPT !.ended = TRUE]
       ELSE /\ events' = ev
            /\ res' = IF rs.headersSent THEN [rs EXCEPT !.failed = TRUE]
                      ELSE [rs EXCEPT !.status = 500, !.body = "error", !.ended = TRUE]

\* the check of the question and the start of the data load
CheckQuestion(r, q, rs, ev, lg, cl) ==
    /\ question' = q
    /\ IF q = ""
       THEN /\ pc' = "done"
            /\ logs' = lg
            /\ calls' = cl
            /\ IF wantsSSE(r)
               THEN /\ events' = ev \o <<"error", "done">>
                    /\ res' = [rs EXCEPT !.ended = TRUE]
               ELSE /\ events' = ev
                    /\ res' = [rs EXCEPT !.status = 400, !.body = "error", !.ended = TRUE]
       ELSE /\ pc' = "load"
            /\ logs' = lg \o <<"Pergunta recebida", "Etapa 1: Carregamento de dados">>
            /\ calls' = [cl EXCEPT !.readFile = @ + 3]
            /\ events' = ev
            /\ res' = rs

\* a request arrives: method check, SSE headers, question or audio
Receive ==
    /\ pc = "idle"
    /\ \E r \in Requests :
        /\ req' = r
        /\ IF r.method # "POST"
           THEN /\ res' = [res EXCEPT !.status = 405, !.ended = TRUE]
                /\ pc' = "done"
                /\ UNCHANGED <<events, logs, calls, question>>
           ELSE LET rs == IF wantsSSE(r)
                          THEN [res EXCEPT !.status = 200, !.headersSent = TRUE]
                          ELSE res
                    ev == IF wantsSSE(r) THEN <<"ready">> ELSE <<>>
                    q == Trim(r.question)
                IN IF q = "" /\ r.audio
                   THEN /\ pc' = "transcribe"
                        /\ question' = q
                        /\ logs' = <<"Entrada de audio detectada", "Transcricao de audio">>
                        /\ events' = IF wantsSSE(r) THEN ev \o <<"typing:book">> ELSE ev
                        /\ calls' = [calls EXCEPT !.transcribe = @ + 1]
                        /\ res' = rs
                   ELSE CheckQuestion(r, q, rs, ev, <<>>, calls)
    /\ UNCHANGED <<dataVars, scopeVars, rankVars, unitVars, apiVars>>

\* transcribeBase64AudioToText returns: the text, or "" after an error
TranscribeReturn ==
    /\ pc = "transcribe"
    /\ \E text \in {"", "rcp"}, failed \in BOOLEAN :
        /\ failed => text = ""
        /\ CheckQuestion(req, text, res, events,
                         logs \o (IF failed THEN <<"Transcricao de audio - erro">> ELSE <<>>),
                         calls)
    /\ UNCHANGED <<req, dataVars, scopeVars, rankVars, unitVars, apiVars>>

CallsAfterLoad_embedFirst(cl, sum) ==
    IF FlatStructure(sum) = <<>> THEN [cl EXCEPT !.embeddings = @ + 1]
    ELSE [cl EXCEPT !.summary = @ + 1, !.embeddings = @ + 1]

\* the external calls issued once the data is loaded: the summary search
\* (its chat completion, unless the flat structure is empty) and nothing else
CallsAfterLoad(cl, sum) ==
    IF FlatStructure(sum) = <<>> THEN cl ELSE [cl EXCEPT !.summary = @ + 1]

\* the three files are read and parsed; semanticSearchSummary is called
LoadData(w) ==
    /\ pages' = w.book
    /\ pageEmbeddings' = w.emb
    /\ sumario' = w.sum
    /\ pageMap' = MapOf(w.book, "texto")
    /\ embByPage' = MapOf(w.emb, "embedding")
    /\ logs' = logs \o <<"Etapa 2: Busca semantica no sumario">>
                    \o (IF StructureThrows(w.sum)
                        THEN <<"Busca Semantica no Sumario - Erro na estruturacao">>
                        ELSE IF FlatStructure(w.sum) = <<>>
                        THEN <<"Busca Semantica no Sumario - Estrutura vazia">>
                        ELSE <<"Requisicao OpenAI: chat.completions.create [semantic_summary]">>)
    /\ calls' = CallsAfterLoad(calls, w.sum)
    /\ pc' = "summary"
    /\ UNCHANGED <<res, events>>

LoadReturn ==
    /\ pc = "load"
    /\ \/ \E w \in Worlds : LoadData(w)
       \/ /\ Catch(events, res)
          /\ UNCHANGED <<logs, calls, dataVars>>
    /\ UNCHANGED <<req, question, scopeVars, rankVars, unitVars, apiVars>>

\* what the summary search can end with: no call for an empty structure,
\* else a failed call, an unparsable reply or a list of ids
SummaryOutcomes(sum) ==
    IF FlatStructure(sum) = <<>> THEN {[kind |-> "empty", ids |-> <<>>]}
    ELSE {[kind |-> "throw", ids |-> <<>>], [kind |-> "unparsable", ids |-> <<>>]}
         \cup {[kind |-> "ids", ids |-> ids] : ids \in ReplyIds(sum)}

\* the section the summary search logs last, after its await
SummaryLog(out) ==
    IF out.kind = "throw" THEN <<"Busca Semantica no Sumario - Erro">>
    ELSE IF out.kind = "unparsable" THEN <<"Busca Semantica no Sumario - Erro ao parsear JSON">>
    ELSE IF out.kind = "ids" THEN <<"Busca Semantica no Sumario - Resultado Final">>
    ELSE <<>>

\* a search that answers with the pages of the first record when the reply
\* cannot be used
semanticSearchSummary_partial(sum, out) ==
    IF out.kind = "ids" THEN SummaryPages(sum, out.ids) ELSE SummaryPages(sum, <<0>>)

\* summaryResult.pages
semanticSearchSummary(sum, out) ==
    IF out.kind = "ids" THEN SummaryPages(sum, out.ids) ELSE <<>>

EmbeddingRequests_perCandidate(cands) == Len(cands)

\* Etapa 4: embeddings.create is called once, outside the loop over the
\* candidates
EmbeddingRequests(cands) == 1

\* Etapas 3 and 4: the scope is fixed, then embeddings.create is called
FixScope(pfs, lg) ==
    LET sc == CandidateScope(pfs, pageMap, embByPage, pageEmbeddings)
    IN /\ pagesFromSummary' = pfs
       /\ searchScope' = sc.searchScope
       /\ candidatePages' = sc.candidatePages
       /\ logs' = lg \o <<IF sc.searchScope = "scoped"
                          THEN "Etapa 3: Escopo restrito por sumario semantico"
                          ELSE "Etapa 3: Escopo global (fallback)",
                          "Etapa 4: Geracao de embedding (escopo ja definido)",
                          "Requisicao OpenAI: embeddings.create">>
       /\ calls' = [calls EXCEPT !.embeddings = @ + EmbeddingRequests(sc.candidatePages)]
       /\ pc' = "embed"

SummaryReturn ==
    /\ pc = "summary"
    /\ \E out \in SummaryOutcomes(sumario) :
          FixScope(semanticSearchSummary(sumario, out), logs \o SummaryLog(out))
    /\ UNCHANGED <<req, res, events, question, dataVars, rankVars, unitVars, apiVars>>

\* the empty result treated as a failure
NotFound_asError(lg) ==
    /\ logs' = lg
    /\ calls' = calls
    /\ Catch(events, res)

\* the "Nao encontrei conteudo no livro." result
NotFound(lg) ==
    /\ logs' = lg
    /\ IF wantsSSE(req)
       THEN /\ events' = events \o <<"book", "typing:complementary">>
            /\ res' = [res EXCEPT !.book = "notfound", !.used_pages = <<>>]
            /\ calls' = [calls EXCEPT !.dict = @ + 1]
            /\ pc' = "delay_book"
       ELSE /\ events' = events
            /\ res' = [res EXCEPT !.status = 200, !.body = "notfound",
                                  !.used_pages = <<>>, !.ended = TRUE]
            /\ calls' = calls
            /\ pc' = "done"

\* Etapas 5 to 8 with the query embedding v, then chat.completions.create
RankAndSelect(v) ==
    LET prelim == Prelim(candidatePages, pageMap, embByPage, v, question, pagesFromSummary)
        rk == Ranked(prelim, searchScope)
        sel == SelectedPages(rk)
        lim == LimitedPages(NonEmptyPages(FinalPages(sel, pageMap), pageMap), rk)
        lg == logs \o <<"Resposta OpenAI: embeddings.create",
                        "Etapa 5: Calculo de similaridade (otimizado)",
                        "Etapa 6: Ranking final">>
    IN /\ queryEmb' = v
       /\ ranked' = rk
       /\ IF rk = <<>>
          THEN /\ selectedPages' = <<>>
               /\ limitedPages' = <<>>
               /\ contextText' = <<>>
               /\ NotFound(lg)
          ELSE /\ selectedPages' = sel
               /\ limitedPages' = lim
               /\ IF lim = <<>>
                  THEN /\ contextText' = <<>>
                       /\ NotFound(lg \o <<"Etapa 7: Selecao e expansao de paginas">>)
                  ELSE /\ contextText' = ContextBlocks(lim, pageMap)
                       /\ logs' = lg \o <<"Etapa 7: Selecao e expansao de paginas",
                                          "Etapa 8: Montagem de contexto",
                                          "Qualidade do contexto",
                                          "Requisicao OpenAI: chat.completions.create">>
                       /\ events' = IF wantsSSE(req) THEN events \o <<"typing:book">>
                                    ELSE events
                       /\ calls' = [calls EXCEPT !.chat = @ + 1]
                       /\ res' = res
                       /\ pc' = "chat"

EmbedReturn ==
    /\ pc = "embed"
    /\ \/ \E v \in QueryVecs : RankAndSelect(v)
       \/ /\ Catch(events, res)
          /\ UNCHANGED <<logs, calls, rankVars>>
    /\ UNCHANGED <<req, question, dataVars, scopeVars, unitVars, apiVars>>

\* the answer arrives: book event in streaming mode; in JSON mode the body
\* names finalAnswer, which is not defined, and the catch block runs
ChatReturn ==
    /\ pc = "chat"
    /\ \/ /\ wantsSSE(req)
          /\ events' = events \o <<"book", "typing:complementary">>
          /\ res' = [res EXCEPT !.book = "answer", !.used_pages = limitedPages]
          /\ logs' = logs \o <<"Resposta OpenAI: chat.completions.create">>
          /\ calls' = [calls EXCEPT !.dict = @ + 1]
          /\ pc' = "delay_book"
       \/ /\ ~wantsSSE(req)
          /\ Catch(events, [res EXCEPT !.status = 200])
          /\ logs' = logs \o <<"Resposta OpenAI: chat.completions.create">>
          /\ UNCHANGED calls
       \/ /\ Catch(events, res)
          /\ UNCHANGED <<logs, calls>>
    /\ UNCHANGED <<req, question, dataVars, scopeVars, rankVars, unitVars, apiVars>>

\* after DELAY_AFTER_BOOK_MS and the dictionary recommendation
DictReturn ==
    /\ pc = "delay_book"
    /\ events' = events \o <<"complementary", "typing:premium">>
    /\ pc' = "delay_complementary"
    /\ UNCHANGED <<req, res, logs, calls, question, dataVars, scopeVars, rankVars, unitVars, apiVars>>

\* a handler that closes the stream before the premium section
Finish_doneFirst ==
    /\ pc = "delay_complementary"
    /\ events' = events \o <<"done", "premium">>
    /\ res' = [res EXCEPT !.ended = TRUE]
    /\ pc' = "done"
    /\ UNCHANGED <<req, logs, calls, question, dataVars, scopeVars, rankVars, unitVars, apiVars>>

\* after DELAY_AFTER_COMPLEMENTARY_MS: premium, done, res.end()
Finish ==
    /\ pc = "delay_complementary"
    /\ events' = events \o <<"premium", "done">>
    /\ res' = [res EXCEPT !.ended = TRUE]
    /\ pc' = "done"
    /\ UNCHANGED <<req, logs, calls, question, dataVars, scopeVars, rankVars, unitVars, apiVars>>

Next ==
    \/ Receive
    \/ TranscribeReturn
    \/ LoadReturn
    \/ SummaryReturn
    \/ EmbedReturn
    \/ ChatReturn
    \/ DictReturn
    \/ Finish

Spec == Init /\ [][Next]_vars

----------------------------------------------------------------------------
(* Library functions called on their own, with arguments from bounded sets *)

\* page numbers of the arguments: 10 .. 9 + MaxPage
UnitPages == {p + 9 : p \in 1..MaxPage}

\* sequences over S of length at most n
SeqsUpTo(S, n) == UNION {[1..k -> S] : k \in 0..n}

\* Maps from page to text whose keys are a subset of UnitPages
UnitPageMaps == UNION {[D -> {PlainText(0, PageChars)}] : D \in SUBSET UnitPages}

ExpandCalls ==
    [fn : {"expandWithAdjacentPages"}, selectedPages : SeqsUpTo(UnitPages, 2),
     pageMap : UnitPageMaps, range : 0..MaxRange]

\* rank scores given to the pages 1..n
ScoreProfiles == {"equal", "rising", "falling", "mixed"}
ProfileScore(p, n, profile) ==
    IF profile = "equal" THEN 1
    ELSE IF profile = "rising" THEN p
    ELSE IF profile = "falling" THEN n + 1 - p
    ELSE p % 3

\* ranked entries for the pages 1..n outside skip (pages that came in by
\* expansion only have no entry)
RankedFor(n, skip, profile) ==
    LET kept == SetToSortedSeq((1..n) \ skip)
    IN [i \in 1..Len(kept) |->
           [pagina |-> kept[i], finalScore |-> ProfileScore(kept[i], n, profile)]]

\* nonEmptyPages: the pages 1..n in ascending or descending order
PageList(n, order) == [i \in 1..n |-> IF order = "asc" THEN i ELSE n + 1 - i]

\* the cap of Etapa 7 on lists around MAX_CONTEXT_PAGES pages
CapCalls ==
    { [fn |-> "limitedPages", nonEmptyPages |-> PageList(n, order),
       ranked |-> RankedFor(n, skip, profile)] :
        n \in (MAX_CONTEXT_PAGES - 1)..CapPages, order \in {"asc", "desc"},
        skip \in {S \in SUBSET (1..CapPages) : Cardinality(S) <= 2},
        profile \in ScoreProfiles }

\* topics: null, without fields of its own, without pages, with pages, with
\* subtopics (one of them without pages), with a null subtopic, pages only
\* in the subtopic
TopicNodes ==
    { NullNode,
      [topico |-> "t"],
      [paginas |-> <<>>],
      [paginas |-> <<3>>],
      [paginas |-> <<3, 2>>, subtopicos |-> << [paginas |-> <<4>>], [titulo |-> "s"] >>],
      [paginas |-> <<4>>, subtopicos |-> << NullNode >>],
      [subtopicos |-> << [paginas |-> <<2, 4>>] >>] }

\* one category, with or without a page list, with up to MaxTopics topics
CategoryNodes ==
    { [topicos |-> tops] : tops \in SeqsUpTo(TopicNodes, MaxTopics) }
    \cup { [paginas |-> pgs, topicos |-> tops] :
              pgs \in {<<>>, <<1, 2>>}, tops \in SeqsUpTo(TopicNodes, MaxTopics) }

\* outlines: empty, one section, or a section without categories in front
Outlines ==
    { <<>> }
    \cup { << [categorias |-> <<cat>>] >> : cat \in CategoryNodes }
    \cup { << [secao |-> "s"], [categorias |-> <<cat>>] >> : cat \in CategoryNodes }

NoReply == [kind |-> "none", ids |-> <<>>]

SummaryCalls ==
    [fn : {"semanticSearchSummary"}, sumario : Outlines, index : {<<>>}, reply : {NoReply}]

\* replies to an index of n records: a failed call, an unparsable reply, or
\* ids in range, repeated, out of order and out of range
UnitOutcomes(n) ==
    { [kind |-> "throw", ids |-> <<>>], [kind |-> "unparsable", ids |-> <<>>] }
    \cup { [kind |-> "ids", ids |-> ids] :
              ids \in {<<>>, <<0>>, <<1>>, <<2>>, <<1, 0>>, <<0, 0>>, <<-1>>, <<n>>, <<0, n>>} }

\* titles and questions of the keyword search
TitleRCP ==
    <<"R", "e", "s", "s", "u", "s", "c", "i", "t", "a", "c+cedilla",
      "a+tilde", "o", " ", "c", "a", "r", "d", "i", "o", "p", "u", "l", "m",
      "o", "n", "a", "r">>
TitleSepse ==
    <<"S", "e", "p", "s", "e", " ", "g", "r", "a", "v", "e">>
TitleChoque ==
    <<"C", "h", "o", "q", "u", "e">>
QueryMassagem ==
    <<"m", "a", "s", "s", "a", "g", "e", "m", " ", "c", "a", "r", "d",
      "i+acute", "a", "c", "a">>
QueryRCP ==
    <<"R", "C", "P">>

KeywordQueries == {QueryMassagem, QueryRCP, TitleSepse, TitleChoque}

\* topics of the keyword outline: the subtopic "Ressuscitacao
\* cardiopulmonar" with pages 1, with pages 2, without pages of its own,
\* behind another subtopic, twice in one topic; and a topic without
\* subtopics
KeywordTopics ==
    { [topico |-> TitleChoque, paginas |-> <<3>>,
       subtopicos |-> << [titulo |-> TitleRCP, paginas |-> <<1>>] >>],
      [topico |-> TitleChoque, paginas |-> <<3>>,
       subtopicos |-> << [titulo |-> TitleRCP, paginas |-> <<2>>] >>],
      [topico |-> TitleSepse, paginas |-> <<4>>,
       subtopicos |-> << [titulo |-> TitleRCP, paginas |-> <<>>] >>],
      [topico |-> TitleSepse, paginas |-> <<4>>,
       subtopicos |-> << [titulo |-> TitleSepse, paginas |-> <<2>>],
                         [titulo |-> TitleRCP, paginas |-> <<1>>] >>],
      [topico |-> TitleChoque, paginas |-> <<>>,
       subtopicos |-> << [titulo |-> TitleRCP, paginas |-> <<1>>],
                         [titulo |-> TitleRCP, paginas |-> <<2>>] >>],
      [topico |-> TitleSepse, paginas |-> <<4>>, subtopicos |-> <<>>] }

Reverse(seq) == [i \in 1..Len(seq) |-> seq[Len(seq) + 1 - i]]

\* the outline with its topics, its subtopics or both in reverse order
Permute(sumario_, kind) ==
    LET subs == [t \in 1..Len(sumario_) |->
                    IF kind = "topics" THEN sumario_[t]
                    ELSE [sumario_[t] EXCEPT !.subtopicos = Reverse(@)]]
    IN IF kind = "subtopics" THEN subs ELSE Reverse(subs)

\* searchSummary on an outline and on a permutation of it
SearchCalls ==
    { [fn |-> "searchSummary", sumario |-> sum, permuted |-> Permute(sum, kind),
       query |-> q] :
        sum \in SeqsUpTo(KeywordTopics, MaxTopics),
        kind \in {"topics", "subtopics", "both"}, q \in KeywordQueries }

\* unnamed/part_006: the pages of a ranking, in rank order
RankedPaginas(rankedPages) == [i \in 1..Len(rankedPages) |-> rankedPages[i].pagina]

\* rerankPagesWithGPT after its call: reply is the outcome of the chat call,
\* keys the pages of pageMap
rerankPagesWithGPT(rankedPages, keys, reply) ==
    LET top == Slice(RankedPaginas(rankedPages), 5)
        validPages == FilterSeq(reply.pages, keys)
        remainingPages == FilterSeq(top, Range(top) \ Range(validPages))
    IN IF reply.kind = "pages" /\ validPages # <<>>
       THEN Slice(validPages \o remainingPages, 5)
       ELSE top

\* selectedPages.sort((a, b) => a - b)
SortPages(sel) == Sort(sel, [ab \in Range(sel) \X Range(sel) |-> NumAsc(ab[1], ab[2])])

RECURSIVE AddWhile(_, _, _)
\* one pass of the selection by priority: the pages of rankedPages accepted
\* by want are added while fewer than 3 are selected
AddWhile(acc, rankedPages, want) ==
    IF rankedPages = <<>> THEN acc
    ELSE LET r == Head(rankedPages)
             take == r.pagina \in want /\ Len(acc) < 3
         IN AddWhile(IF take THEN Append(acc, r.pagina) ELSE acc, Tail(rankedPages), want)

\* the selection of Stage 5 without re-ranking: phrase matches, then literal
\* matches, then the top of the ranking
PrioritySelection(rankedPages) ==
    LET all == Range(RankedPaginas(rankedPages))
        phrase == {r.pagina : r \in {x \in Range(rankedPages) : x.hasPhraseMatch}}
        literal == {r.pagina : r \in {x \in Range(rankedPages) : x.hasLiteralMatch}}
        first == AddWhile(<<>>, rankedPages, phrase)
        second == AddWhile(first, rankedPages, literal \ Range(first))
    IN AddWhile(second, rankedPages, all \ Range(second))

\* rank order of the pages 1..7
RerankOrder == <<3, 1, 4, 2, 6, 5, 7>>

\* rankings of the first n pages of RerankOrder with their match flags
RerankRankings ==
    { [i \in 1..n |-> [pagina |-> RerankOrder[i],
                        hasPhraseMatch |-> RerankOrder[i] \in ph,
                        hasLiteralMatch |-> RerankOrder[i] \in ph \cup lit]] :
        n \in 0..Len(RerankOrder), ph \in {{}, {4}, {2, 6}}, lit \in {{}, {1, 5, 7}} }

\* Stage 5 with re-ranking on or off; page 8 has text but no embedding, so it
\* is a key of pageMap that is never ranked
SelectCalls ==
    [fn : {"selectStage5"}, ranked : RerankRankings, useGpt : BOOLEAN,
     keys : {1..Len(RerankOrder), 1..(Len(RerankOrder) + 1)},
     reply : {[kind |-> "none", pages |-> <<>>]}]

\* outcomes of the re-ranking call: it throws, the reply is not JSON, it has
\* no selectedPages, or it names pages
RerankOutcomes ==
    { [kind |-> k, pages |-> <<>>] : k \in {"throw", "unparsable", "nofield"} }
    \cup { [kind |-> "pages", pages |-> pgs] :
              pgs \in {<<>>, <<9>>, <<2>>, <<4, 3>>, <<2, 2>>, <<8>>, <<7, 9>>,
                        <<5, 1, 2, 3, 4, 6>>} }

\* longest argument of normalizeStr
MaxStr == 3

\* characters of the arguments of normalizeStr: upper and lower case, with
\* and without accent, precomposed and as a combining mark of its own
NormalizeAlphabet == {"R", "r", "S", "C+cedilla", "c+cedilla", "a+tilde", "tilde", " "}

\* normalizeStr on null, undefined and the strings of up to MaxStr characters
NormalizeCalls ==
    { [fn |-> "normalizeStr", s |-> [kind |-> k]] : k \in {"null", "undefined"} }
    \cup { [fn |-> "normalizeStr", s |-> [kind |-> "string", chars |-> str]] :
              str \in SeqsUpTo(NormalizeAlphabet, MaxStr) }

\* lib/constants.js
DICT_MAX_CANDIDATES == 20
DICT_MAX_RECOMMEND == 5

\* lib/dict.js, for a question of one token: the token counts 3 in the
\* title, 2 in the tags and 1 for each occurrence in the joined text of
\* title, author, type and tags
scoreDictItem(item) ==
    item.inTitulo * 3 + item.inTags * 2 + (item.inTitulo + item.inAutor + item.inTags)

\* (a, b) => b.s - a.s
DictCmp(a, b) == scoreDictItem(b) - scoreDictItem(a)

pickTopDictCandidates(items, limit) ==
    Slice(Sort(items, [ab \in Range(items) \X Range(items) |-> DictCmp(ab[1], ab[2])]),
          limit)

\* the part of recommendFromDictionary after the reply of the model
SelectedFromReply(candidates, reply) ==
    LET ids == IF reply.kind = "ids" THEN Slice(reply.ids, DICT_MAX_RECOMMEND) ELSE <<>>
        known == {c.id : c \in Range(candidates)}
        found == FilterSeq(ids, known)
        selected == Slice([i \in 1..Len(found) |->
                              LET at == CHOOSE k \in 1..Len(candidates) :
                                          /\ candidates[k].id = found[i]
                                          /\ \A j \in 1..(k - 1) : candidates[j].id # found[i]
                              IN candidates[at]],
                          DICT_MAX_RECOMMEND)
    IN IF Len(selected) > 0 THEN selected ELSE Slice(candidates, Min(3, Len(candidates)))

\* a dictionary of n items with ids 1..n; where in an item the token of the
\* question occurs depends on the profile
DictItems(n, profile) ==
    [i \in 1..n |->
        [id |-> i,
         inTitulo |-> IF profile = "titles" /\ i % 3 = 0 THEN 1 ELSE 0,
         inTags |-> IF profile = "tags" /\ i % 2 = 0 THEN 2 ELSE 0,
         inAutor |-> IF profile = "last" /\ i = n THEN 1 ELSE 0]]

\* recommendFromDictionary on dictionaries around the two limits; the fetch
\* of /api/dict throws, answers with an error status or with the items
RecommendCalls ==
    { [fn |-> "recommendFromDictionary", fetch |-> f, items |-> DictItems(n, profile),
       candidates |-> <<>>, reply |-> NoReply] :
        f \in {"throw", "status", "ok"},
        n \in {0, 1, 2, 4, 6, DICT_MAX_CANDIDATES, DICT_MAX_CANDIDATES + 2},
        profile \in {"none", "titles", "tags", "last"} }

\* outcomes of the call of the model for n candidates
RecommendOutcomes(n) ==
    { [kind |-> "throw", ids |-> <<>>], [kind |-> "unparsable", ids |-> <<>>],
      [kind |-> "noarray", ids |-> <<>>] }
    \cup { [kind |-> "ids", ids |-> ids] :
              ids \in {<<>>, <<1>>, <<n>>, <<2, 1>>, <<1, 1>>, <<99>>,
                        <<99, 98, 97, 96, 95, 1>>, <<6, 5, 4, 3, 2, 1>>} }

\* unnamed/part_010: the answer of the citation-validating handler
NotFoundAnswer == "Nao encontrei conteudo no livro."

\* text of a page as a string, "" for a page that is not in the book
CitedText(pmap, page) == IF page \in DOMAIN pmap THEN pmap[page] ELSE <<>>

\* a citation counts when its page is a number other than 0, its quote is
\* not empty, the page is allowed and its text includes the quote
ValidCitation(c, pmap, allowed) ==
    /\ c.page # 0
    /\ c.quote # <<>>
    /\ c.page \in allowed
    /\ Includes(CitedText(pmap, c.page), c.quote)

validateCitations_anyPage(citations, pmap, allowed) ==
    LET V[i \in 0..Len(citations)] ==
            IF i = 0 THEN <<>>
            ELSE LET before == V[i - 1]
                 IN IF Len(before) >= 2 THEN before
                    ELSE IF ValidCitation(citations[i], pmap, DOMAIN pmap)
                    THEN Append(before, citations[i])
                    ELSE before
    IN V[Len(citations)]

\* the first two valid citations, in the order of the reply
validateCitations(citations, pmap, allowed) ==
    LET V[i \in 0..Len(citations)] ==
            IF i = 0 THEN <<>>
            ELSE LET before == V[i - 1]
                 IN IF Len(before) >= 2 THEN before
                    ELSE IF ValidCitation(citations[i], pmap, allowed)
                    THEN Append(before, citations[i])
                    ELSE before
    IN V[Len(citations)]

\* the response built from the reply of the model
CitedResponse(reply, pmap, usedPages) ==
    LET notFound == [answer |-> NotFoundAnswer, citations |-> <<>>, used_pages |-> usedPages]
        citations == IF reply.isArray THEN reply.citations ELSE <<>>
        validCitations == validateCitations(citations, pmap, Range(usedPages))
    IN IF reply.kind = "unparsable" THEN notFound
       ELSE IF reply.answer = "" \/ (validCitations = <<>> /\ reply.answer # NotFoundAnswer)
       THEN notFound
       ELSE [answer |-> reply.answer, citations |-> validCitations, used_pages |-> usedPages]

\* most citations in a reply
MaxCitations == 3

\* the book of the citation calls: pages 10 to 12 with their text
CitedBook ==
    (10 :> <<"a", "b", "c">>) @@ (11 :> <<"b", "d">>) @@ (12 :> <<"a", "b">>)

\* citations: valid ones, a quote that is not in the page, a page of the
\* book that is not in the context, a page that is no number (0), an empty
\* quote, a quote that is in another page only
Citations ==
    { [page |-> 10, quote |-> <<"a", "b">>], [page |-> 11, quote |-> <<"b">>],
      [page |-> 10, quote |-> <<"c">>], [page |-> 10, quote |-> <<"c", "a">>],
      [page |-> 12, quote |-> <<"a", "b">>], [page |-> 0, quote |-> <<"a", "b">>],
      [page |-> 10, quote |-> <<>>], [page |-> 11, quote |-> <<"a", "b">>] }

\* replies of the model: not JSON, or an answer (empty, the not-found
\* sentence, another sentence) with citations that are a list or not
CitedReplies ==
    { [kind |-> "unparsable", answer |-> "", isArray |-> FALSE, citations |-> <<>>] }
    \cup [kind : {"json"}, answer : {"", NotFoundAnswer, "Resposta"}, isArray : {TRUE},
          citations : SeqsUpTo(Citations, MaxCitations)]
    \cup [kind : {"json"}, answer : {"", NotFoundAnswer, "Resposta"}, isArray : {FALSE},
          citations : {<<>>}]

CitationCalls ==
    [fn : {"validateCitations"}, reply : CitedReplies, pageMap : {CitedBook},
     usedPages : {<<10>>, <<10, 11>>}]

UnitCalls ==
    ExpandCalls \cup CapCalls \cup SummaryCalls \cup SearchCalls \cup SelectCalls
    \cup NormalizeCalls \cup RecommendCalls \cup CitationCalls

UnitInit ==
    /\ pc = "unit_call"
    /\ Fresh
    /\ call \in UnitCalls
    /\ ret = <<>>
    /\ DictAtRest
    /\ PeersAtRest

\* the call returns v
Return(v) ==
    /\ pc = "unit_call"
    /\ ret' = v
    /\ pc' = "unit_ret"
    /\ UNCHANGED <<req, res, events, logs, calls, question, dataVars, scopeVars,
                   rankVars, call, apiVars>>

CallExpand ==
    /\ call.fn = "expandWithAdjacentPages"
    /\ Return(expandWithAdjacentPages(call.selectedPages, call.pageMap, call.range))

CallCap ==
    /\ call.fn = "limitedPages"
    /\ Return(LimitedPages(call.nonEmptyPages, call.ranked))

\* semanticSearchSummary up to its await: the structure is built and the
\* index sent, or the function returns at once
CallSummary ==
    /\ pc = "unit_call"
    /\ call.fn = "semanticSearchSummary"
    /\ LET flat == FlatStructure(call.sumario)
       IN IF flat = <<>>
          THEN /\ ret' = [pages |-> <<>>, paths |-> <<>>]
               /\ pc' = "unit_ret"
               /\ call' = call
          ELSE /\ call' = [call EXCEPT !.index = SummaryIndex(flat)]
               /\ pc' = "unit_await"
               /\ ret' = ret
    /\ UNCHANGED <<req, res, events, logs, calls, question, dataVars, scopeVars, rankVars, apiVars>>

\* the reply arrives and semanticSearchSummary returns
SummaryReply ==
    /\ pc = "unit_await"
    /\ call.fn = "semanticSearchSummary"
    /\ \E out \in UnitOutcomes(Len(call.index)) :
          /\ call' = [call EXCEPT !.reply = out]
          /\ ret' = [pages |-> semanticSearchSummary(call.sumario, out),
                     paths |-> IF out.kind = "ids" THEN SummaryPaths(call.sumario, out.ids)
                               ELSE <<>>]
    /\ pc' = "unit_ret"
    /\ UNCHANGED <<req, res, events, logs, calls, question, dataVars, scopeVars, rankVars, apiVars>>

\* searchSummary(sumario, query)
CallSearch ==
    /\ pc = "unit_call"
    /\ call.fn = "searchSummary"
    /\ ret' = [first |-> searchSummary(call.sumario, call.query)]
    /\ pc' = "unit_again"
    /\ UNCHANGED <<req, res, events, logs, calls, question, dataVars, scopeVars,
                   rankVars, call, apiVars>>

\* searchSummary(permuted, query), the same question once more
CallSearchPermuted ==
    /\ pc = "unit_again"
    /\ ret' = [first |-> ret.first,
               second |-> searchSummary(call.permuted, call.query)]
    /\ pc' = "unit_ret"
    /\ UNCHANGED <<req, res, events, logs, calls, question, dataVars, scopeVars,
                   rankVars, call, apiVars>>

\* Stage 5 of unnamed/part_006 up to the await of the re-ranking call;
\* without re-ranking, or with an empty ranking, the selection is made at once
CallSelect ==
    /\ pc = "unit_call"
    /\ call.fn = "selectStage5"
    /\ IF call.useGpt /\ call.ranked # <<>>
       THEN /\ pc' = "unit_await"
            /\ ret' = ret
       ELSE /\ pc' = "unit_ret"
            /\ ret' = LET sel == IF call.useGpt
                                  THEN Slice(RankedPaginas(call.ranked), 5)
                                  ELSE PrioritySelection(call.ranked)
                       IN [reranked |-> IF call.useGpt THEN sel ELSE <<>>,
                           selectedPages |-> SortPages(sel)]
    /\ UNCHANGED <<req, res, events, logs, calls, question, dataVars, scopeVars,
                   rankVars, call, apiVars>>

\* the re-ranking call ends, rerankPagesWithGPT returns and the handler
\* sorts the selection
SelectReply ==
    /\ pc = "unit_await"
    /\ call.fn = "selectStage5"
    /\ \E out \in RerankOutcomes :
          /\ call' = [call EXCEPT !.reply = out]
          /\ ret' = LET sel == rerankPagesWithGPT(call.ranked, call.keys, out)
                     IN [reranked |-> sel, selectedPages |-> SortPages(sel)]
    /\ pc' = "unit_ret"
    /\ UNCHANGED <<req, res, events, logs, calls, question, dataVars, scopeVars, rankVars, apiVars>>

\* normalizeStr(s), and normalizeStr of what it returned
CallNormalize ==
    /\ call.fn = "normalizeStr"
    /\ LET once == normalizeStr(OrEmpty(call.s))
       IN Return([once |-> once,
                  twice |-> normalizeStr(OrEmpty([kind |-> "string", chars |-> once]))])

\* recommendFromDictionary up to the call of the model: the dictionary is
\* fetched and the candidates are picked
CallRecommend ==
    /\ pc = "unit_call"
    /\ call.fn = "recommendFromDictionary"
    /\ IF call.fetch # "ok" \/ call.items = <<>>
       THEN /\ ret' = [raw |-> <<>>]
            /\ pc' = "unit_ret"
            /\ call' = call
       ELSE /\ call' = [call EXCEPT
                           !.candidates = pickTopDictCandidates(call.items, DICT_MAX_CANDIDATES)]
            /\ pc' = "unit_await"
            /\ ret' = ret
    /\ UNCHANGED <<req, res, events, logs, calls, question, dataVars, scopeVars, rankVars, apiVars>>

\* the model replies and recommendFromDictionary returns
RecommendReply ==
    /\ pc = "unit_await"
    /\ call.fn = "recommendFromDictionary"
    /\ \E out \in RecommendOutcomes(Len(call.candidates)) :
          /\ call' = [call EXCEPT !.reply = out]
          /\ ret' = [raw |-> IF out.kind = "throw" THEN <<>>
                              ELSE SelectedFromReply(call.candidates, out)]
    /\ pc' = "unit_ret"
    /\ UNCHANGED <<req, res, events, logs, calls, question, dataVars, scopeVars, rankVars, apiVars>>

\* the handler of unnamed/part_010 from the reply of the model to its response
CallValidate ==
    /\ call.fn = "validateCitations"
    /\ Return(CitedResponse(call.reply, call.pageMap, call.usedPages))

UnitNext ==
    \/ CallValidate
    \/ CallRecommend
    \/ RecommendReply
    \/ CallNormalize
    \/ CallSelect
    \/ SelectReply
    \/ CallExpand
    \/ CallCap
    \/ CallSummary
    \/ SummaryReply
    \/ CallSearch
    \/ CallSearchPermuted

UnitSpec == UnitInit /\ [][UnitNext]_vars

----------------------------------------------------------------------------
(* unnamed/part_003: the dictionary API, two requests in flight *)

\* requests: list, read one, create (valid body or not), update, delete,
\* and a method that is not served; id 1 is stored, id 9 is not
DictRequests ==
    [method : {"GET"}, id : {0, 1, 9}, valid : {TRUE}]
    \cup [method : {"POST"}, id : {0}, valid : BOOLEAN]
    \cup [method : {"PUT"}, id : {1, 9}, valid : BOOLEAN]
    \cup [method : {"DELETE"}, id : {0, 1, 9}, valid : {TRUE}]
    \cup [method : {"PATCH"}, id : {0}, valid : {TRUE}]

\* genId(): an id no other request gets
genId(p) == 100 + p

\* titles written by request p
NewTitle(p) == IF p = 1 THEN "b" ELSE "c"

\* position of the item with this id, 0 when there is none
FindIndex(items, id) ==
    IF \E i \in 1..Len(items) : items[i].id = id
    THEN CHOOSE i \in 1..Len(items) :
            items[i].id = id /\ \A j \in 1..(i - 1) : items[j].id # id
    ELSE 0

\* the request ends with this status
DictRespond(p, status) ==
    dictReqs' = [dictReqs EXCEPT ![p].pc = "done", ![p].status = status]

\* the handler up to its first await: the method is looked at, a POST body
\* is validated, loadDictionary is called
DictReceive(p) ==
    /\ dictReqs[p].pc = "idle"
    /\ \E r \in DictRequests :
          LET arrived == [dictReqs[p] EXCEPT !.method = r.method, !.id = r.id,
                                             !.valid = r.valid]
              served == \/ r.method \in {"GET", "POST"}
                        \/ r.method \in {"PUT", "DELETE"} /\ r.id # 0
          IN dictReqs' =
               [dictReqs EXCEPT ![p] =
                   IF ~served THEN [arrived EXCEPT !.pc = "done", !.status = 405]
                   ELSE IF r.method = "POST" /\ ~r.valid
                   THEN [arrived EXCEPT !.pc = "done", !.status = 400]
                   ELSE [arrived EXCEPT !.pc = "loading"]]
    /\ UNCHANGED dictFile

\* loadDictionary returns what the file holds now; a read request answers,
\* a write request changes its copy and calls saveDictionary
DictLoaded(p) ==
    /\ dictReqs[p].pc = "loading"
    /\ LET r == dictReqs[p]
           items == dictFile
           idx == FindIndex(items, r.id)
           ends(status) == [r EXCEPT !.pc = "done", !.status = status, !.items = items]
           saves(changed) == [r EXCEPT !.pc = "saving", !.items = changed]
       IN dictReqs' =
            [dictReqs EXCEPT ![p] =
                IF r.method = "GET"
                THEN ends(IF r.id = 0 \/ idx # 0 THEN 200 ELSE 404)
                ELSE IF r.method = "POST"
                THEN saves(Append(items, [id |-> genId(p), titulo |-> NewTitle(p)]))
                ELSE IF idx = 0 THEN ends(404)
                ELSE IF r.method = "PUT"
                THEN IF ~r.valid THEN ends(400)
                     ELSE saves([items EXCEPT ![idx].titulo = NewTitle(p)])
                ELSE saves(FilterSeq(items, {it \in Range(items) : it.id # r.id}))]
    /\ UNCHANGED dictFile

\* saveDictionary writes the request's copy over the file
DictSaved(p) ==
    /\ dictReqs[p].pc = "saving"
    /\ dictFile' = dictReqs[p].items
    /\ DictRespond(p, IF dictReqs[p].method = "POST" THEN 201 ELSE 200)

DictNext ==
    /\ \E p \in DictProcs : DictReceive(p) \/ DictLoaded(p) \/ DictSaved(p)
    /\ UNCHANGED <<pc, req, res, events, logs, calls, question, dataVars, scopeVars,
                   rankVars, unitVars, peers, alsStores>>

DictInit ==
    /\ pc = "dict"
    /\ Fresh
    /\ call = NoCall
    /\ ret = <<>>
    /\ DictAtRest
    /\ PeersAtRest

DictSpec == DictInit /\ [][DictNext]_vars

----------------------------------------------------------------------------
(* api/chat.js with two requests in flight: each request has its own locals *)
(* and the log store of its own async context                               *)

\* the data files, read by every request: the first three pages have no
\* text, so that some requests end with the not-found answer
IsoWorld ==
    World(MaxPage, NoDefect, [kind |-> "emptyTop", page |-> 3], "cyclic", SumFile(MaxPage))

\* als.enterWith({ logs: [], enabled: true }) in the async context ctx
enterWith(stores, ctx) == [stores EXCEPT ![ctx] = [enabled |-> TRUE, logs |-> <<>>]]

\* a log buffer of the module instead of a store per context
logSection_shared(stores, ctx, title) ==
    [c \in DOMAIN stores |->
        IF stores[c].enabled THEN [stores[c] EXCEPT !.logs = Append(@, title)]
        ELSE stores[c]]

\* logSection(title) called in the async context ctx: the title goes to the
\* store of that context, if there is one
logSection(stores, ctx, title) ==
    IF stores[ctx].enabled THEN [stores EXCEPT ![ctx].logs = Append(@, title)]
    ELSE stores

RECURSIVE LogAll(_, _, _)
\* logSection for each title in turn
LogAll(stores, ctx, titles) ==
    IF titles = <<>> THEN stores
    ELSE LogAll(logSection(stores, ctx, Head(titles)), ctx, Tail(titles))

\* getLogs() called in the async context ctx
getLogs(stores, ctx) == stores[ctx].logs

\* Etapas 2 and 3 for the result out of the outline search
IsoScope(out) ==
    CandidateScope(semanticSearchSummary(IsoWorld.sum, out), MapOf(IsoWorld.book, "texto"),
                   MapOf(IsoWorld.emb, "embedding"), IsoWorld.emb)

\* Etapas 5 to 8 for the question q, the outline result out and the query
\* embedding v
IsoSelection(q, out, v) ==
    LET pmap == MapOf(IsoWorld.book, "texto")
        rk == Ranked(Prelim(IsoScope(out).candidatePages, pmap,
                            MapOf(IsoWorld.emb, "embedding"), v, q,
                            semanticSearchSummary(IsoWorld.sum, out)),
                     IsoScope(out).searchScope)
        nonEmpty == NonEmptyPages(FinalPages(SelectedPages(rk), pmap), pmap)
        lim == LimitedPages(nonEmpty, rk)
    IN [ranked |-> Len(rk), nonEmpty |-> Len(nonEmpty), usedPages |-> lim,
        context |-> ContextBlocks(lim, pmap)]

\* the sections a request logs in each segment of the handler
ReceiveLog == <<"Pergunta recebida", "Etapa 1: Carregamento de dados">>
LoadLog == <<"Etapa 2: Busca semantica no sumario">>
ScopeLog(out) ==
    SummaryLog(out)
    \o <<IF IsoScope(out).searchScope = "scoped"
          THEN "Etapa 3: Escopo restrito por sumario semantico"
          ELSE "Etapa 3: Escopo global (fallback)",
          "Etapa 4: Geracao de embedding (escopo ja definido)">>
RankLog(sel) ==
    <<"Etapa 5: Calculo de similaridade (otimizado)", "Etapa 6: Ranking final">>
    \o (IF sel.ranked = 0 THEN <<>>
        ELSE <<"Etapa 7: Selecao e expansao de paginas">>
             \o (IF sel.nonEmpty > MAX_CONTEXT_PAGES
                 THEN <<"Contexto limitado por tamanho">> ELSE <<>>)
             \o (IF sel.usedPages = <<>> THEN <<>>
                 ELSE <<"Etapa 8: Montagem de contexto", "Qualidade do contexto">>))

\* request p arrives: enterWith, then the check of the question
IsoReceive(p) ==
    /\ peers[p].pc = "idle"
    /\ \E q \in {"", "rcp"} :
          LET entered == enterWith(alsStores, p)
              logged == IF q = "" THEN entered ELSE LogAll(entered, p, ReceiveLog)
          IN /\ alsStores' = logged
             /\ peers' = [peers EXCEPT ![p].question = q,
                                        ![p].pc = IF q = "" THEN "done" ELSE "load",
                                        ![p].body = IF q = "" THEN "error" ELSE "none",
                                        ![p].logs = IF q = "" THEN getLogs(logged, p) ELSE <<>>]

\* the files are read; the outline search is called
IsoLoadReturn(p) ==
    /\ peers[p].pc = "load"
    /\ alsStores' = LogAll(alsStores, p, LoadLog)
    /\ peers' = [peers EXCEPT ![p].pc = "summary"]

\* the outline search returns; the scope is fixed and the embedding asked for
IsoSummaryReturn(p) ==
    /\ peers[p].pc = "summary"
    /\ \E out \in SummaryOutcomes(IsoWorld.sum) :
          /\ alsStores' = LogAll(alsStores, p, ScopeLog(out))
          /\ peers' = [peers EXCEPT ![p].sumOut = out,
                                     ![p].searchScope = IsoScope(out).searchScope,
                                     ![p].candidatePages = IsoScope(out).candidatePages,
                                     ![p].pc = "embed"]

\* the embedding arrives; ranking, selection and context; the not-found
\* answer is sent at once, else the generation is called
IsoEmbedReturn(p) ==
    /\ peers[p].pc = "embed"
    /\ \E v \in {E1, E2} :
          LET sel == IsoSelection(peers[p].question, peers[p].sumOut, v)
              found == sel.usedPages # <<>>
              logged == LogAll(alsStores, p, RankLog(sel))
          IN /\ alsStores' = logged
             /\ peers' = [peers EXCEPT ![p].queryEmb = v,
                                        ![p].usedPages = sel.usedPages,
                                        ![p].context = sel.context,
                                        ![p].pc = IF found THEN "chat" ELSE "done",
                                        ![p].body = IF found THEN "none" ELSE "notfound",
                                        ![p].logs = IF found THEN <<>> ELSE getLogs(logged, p)]

\* the answer arrives and is sent with the logs of the request
IsoChatReturn(p) ==
    /\ peers[p].pc = "chat"
    /\ peers' = [peers EXCEPT ![p].pc = "done", ![p].body = "answer",
                               ![p].logs = getLogs(alsStores, p)]
    /\ UNCHANGED alsStores

IsoNext ==
    /\ \E p \in IsoProcs :
          \/ IsoReceive(p)
          \/ IsoLoadReturn(p)
          \/ IsoSummaryReturn(p)
          \/ IsoEmbedReturn(p)
          \/ IsoChatReturn(p)
    /\ UNCHANGED <<pc, req, res, events, logs, calls, question, dataVars, scopeVars,
                   rankVars, unitVars, dictFile, dictReqs>>

IsoInit ==
    /\ pc = "two"
    /\ Fresh
    /\ call = NoCall
    /\ ret = <<>>
    /\ DictAtRest
    /\ PeersAtRest

IsoSpec == IsoInit /\ [][IsoNext]_vars

----------------------------------------------------------------------------
(* unnamed/part_010: the context builder of the citation-validating handler *)

\* the pages of pagesList, in order, that have text, up to the first one
\* whose chunk "--- Página p ---\n" + text + "\n\n" would pass maxChars
buildContextFromPages(pagesList, pmap, maxChars) ==
    LET chunk(p) == 16 + Digits(p) + PageText(pmap, p).chars + 2
        B[i \in 0..Len(pagesList)] ==
            IF i = 0 THEN [used |-> <<>>, acc |-> 0, open |-> TRUE]
            ELSE LET b == B[i - 1]
                     p == pagesList[i]
                 IN IF ~b.open \/ PageText(pmap, p).chars = 0 THEN b
                    ELSE IF b.acc + chunk(p) > maxChars THEN [b EXCEPT !.open = FALSE]
                    ELSE [used |-> Append(b.used, p), acc |-> b.acc + chunk(p),
                          open |-> TRUE]
    IN [usedPages |-> B[Len(pagesList)].used, length |-> B[Len(pagesList)].acc]

----------------------------------------------------------------------------
(* Properties *)

ScopeFixed == searchScope # "unset"
RankingDone == pc \in {"chat", "delay_book", "delay_complementary"}
               \/ (pc = "done" /\ queryEmb # <<>>)

\* position of the first occurrence of x in s, 0 when there is none
IndexOf(s, x) ==
    IF x \in Range(s) THEN CHOOSE i \in 1..Len(s) : s[i] = x /\ \A j \in 1..(i - 1) : s[j] # x
    ELSE 0

\* C1: the ranked list is totally ordered: of two ranked candidates the one
\* in front has the higher finalScore, or the same finalScore and the lower
\* page number.
RankedTotallyOrdered ==
    \A i, j \in 1..Len(ranked) :
        i < j => \/ /\ ~ranked[i].nan /\ ~ranked[j].nan
                    /\ ranked[i].finalScore > ranked[j].finalScore
                 \/ /\ ~ranked[i].nan /\ ~ranked[j].nan
                    /\ ranked[i].finalScore = ranked[j].finalScore
                    /\ ranked[i].pagina < ranked[j].pagina

\* C3: scope monotonicity: a non-empty outline result gives the scope
\* "scoped" and every used page is an outline page or at most 2 pages away
\* from one; an empty outline result gives the scope "global".
ScopeMonotonicity ==
    ScopeFixed =>
        /\ pagesFromSummary # <<>> =>
              /\ searchScope = "scoped"
              /\ \A p \in Range(limitedPages) \cup Range(res.used_pages) :
                    \E o \in Range(pagesFromSummary) : p - o \in -2..2
        /\ pagesFromSummary = <<>> => searchScope = "global"

\* C3 witness: a scoped request whose used pages include a neighbour of an
\* outline page
ScopedWithNeighbourUsed ==
    /\ pc = "delay_book"
    /\ searchScope = "scoped"
    /\ \E p \in Range(res.used_pages) : p \notin Range(pagesFromSummary)

\* C4: the steps of a request are ordered: while the outline search has not
\* returned the scope is not fixed and no embedding call is issued; the
\* embedding call is issued after the scope was fixed; no similarity is
\* computed while the embedding call is in flight.
StepOrder ==
    /\ pc \in {"idle", "transcribe", "load", "summary"} =>
          /\ ~ScopeFixed
          /\ calls.embeddings = 0
    /\ calls.embeddings > 0 =>
          /\ ScopeFixed
          /\ IndexOf(logs, "Etapa 2: Busca semantica no sumario") > 0
          /\ IndexOf(logs, "Etapa 2: Busca semantica no sumario")
               < IndexOf(logs, "Etapa 4: Geracao de embedding (escopo ja definido)")
          /\ IndexOf(logs, "Etapa 4: Geracao de embedding (escopo ja definido)")
               < IndexOf(logs, "Requisicao OpenAI: embeddings.create")
    /\ pc = "embed" => queryEmb = <<>> /\ ranked = <<>>
    /\ ranked # <<>> =>
          /\ queryEmb # <<>>
          /\ IndexOf(logs, "Resposta OpenAI: embeddings.create")
               < IndexOf(logs, "Etapa 5: Calculo de similaridade (otimizado)")

\* C4 witness: the embedding call is in flight after an outline search that
\* called the model and gave a scoped candidate list
EmbeddingInFlightAfterScope ==
    /\ pc = "embed"
    /\ calls.summary = 1
    /\ searchScope = "scoped"
    /\ Len(candidatePages) > 1

\* C5: the query embedding is computed once per request: never more than one
\* call, exactly one for a request that reached the ranking, and none for a
\* request rejected as an empty question.
EmbeddingOnce ==
    /\ calls.embeddings <= 1
    /\ RankingDone => calls.embeddings = 1
    /\ (pc = "done" /\ req.method = "POST" /\ question = "") =>
          calls.embeddings = 0

\* C5 witness: a ranking over several candidates after one embedding call
RankedSeveralCandidates ==
    /\ pc = "chat"
    /\ Len(ranked) > 2
    /\ calls.embeddings = 1

\* C6: every candidate page is a page of the corpus and has an embedding.
CandidatesInCorpus ==
    \A p \in Range(candidatePages) : p \in DOMAIN pageMap /\ p \in DOMAIN embByPage

\* C7: the candidate list never contains a page number twice.
CandidatesDistinct ==
    \A i, j \in 1..Len(candidatePages) : i # j => candidatePages[i] # candidatePages[j]

\* C8: the final page list is strictly ascending by page number, and the
\* blocks of the context are in that order.
UsedPagesAscending ==
    /\ \A i, j \in 1..Len(limitedPages) : i < j => limitedPages[i] < limitedPages[j]
    /\ \A i, j \in 1..Len(contextText) : i < j => contextText[i].pagina < contextText[j].pagina

\* C9: the final page list is empty only when no ranked candidate has
\* non-blank text.
EmptyOnlyWithoutUsableText ==
    (RankingDone /\ \E i \in 1..Len(ranked) : PageText(pageMap, ranked[i].pagina).chars > 0)
        => limitedPages # <<>>

\* C10: the context never exceeds the character budget.
ContextWithinBudget == ContextLength(contextText) <= MAX_CONTEXT_CHARS

\* the request was rejected for its empty question
RejectedEmpty == pc = "done" /\ req.method = "POST" /\ question = ""

\* C13: a request with an empty or blank question (and no usable
\* transcription) ends in a normal result with an empty page list, not in
\* an error response, and reads no data file and calls no model for
\* retrieval or answering.
EmptyInputSafety ==
    RejectedEmpty =>
        /\ res.status = 200
        /\ res.body # "error"
        /\ \A i \in 1..Len(events) : events[i] # "error"
        /\ res.used_pages = <<>>
        /\ calls.readFile = 0 /\ calls.summary = 0
        /\ calls.embeddings = 0 /\ calls.chat = 0

SummaryFailureLogs ==
    {"Busca Semantica no Sumario - Estrutura vazia",
     "Busca Semantica no Sumario - Erro na estruturacao",
     "Busca Semantica no Sumario - Erro ao parsear JSON",
     "Busca Semantica no Sumario - Erro"}

\* C15: the summary search never throws: the handler always goes on from it
\* to the scope and the embedding call; after an empty outline, a malformed
\* outline, a failed call or an unparsable reply its page list is empty;
\* and an empty page list (no matching entry included) gives global scope.
SummaryNeverThrows ==
    [][pc = "summary" =>
          /\ pc' = "embed"
          /\ ~res'.failed /\ res'.body # "error"
          /\ Range(logs') \cap SummaryFailureLogs # {} => pagesFromSummary' = <<>>
          /\ pagesFromSummary' = <<>> => searchScope' = "global"]_vars

\* the call of the summary search failed and the scope is global
SummaryCallFailedGlobal ==
    /\ pc = "embed"
    /\ "Busca Semantica no Sumario - Erro" \in Range(logs)
    /\ FlatStructure(sumario) # <<>>
    /\ pagesFromSummary = <<>>
    /\ searchScope = "global"

\* the query embedding and the embedding of some candidate differ in length
DimensionMismatch ==
    /\ queryEmb # <<>>
    /\ \E p \in Range(candidatePages) \cap DOMAIN embByPage :
          Len(embByPage[p]) # Len(queryEmb)

\* C19: when the query embedding and a candidate's embedding differ in
\* length the request ends in the error branch, with no ranking computed
\* from the mismatched vectors.
DimensionMismatchFails ==
    DimensionMismatch =>
        /\ ranked = <<>>
        /\ pc = "done"
        /\ res.body = "error" \/ "error" \in Range(events)

\* what decides the order when embNorm is the same for all: the weighted
\* lexNorm plus the outline boost, times 100 * lexDen
LexAndBoost(r) ==
    (IF searchScope = "scoped" THEN 20 ELSE 30) * r.lexNorm
    + (IF r.inSummary THEN (IF searchScope = "scoped" THEN 30 ELSE 8) ELSE 0) * r.lexDen

\* C20: embNorm and lexNorm of every ranked candidate are numbers in [0, 1];
\* when all candidates have the same embedding score embNorm is 0 for all
\* and the order follows lexNorm, the outline boost and the page number;
\* when no candidate has a lexical hit lexNorm is 0 for all.
NormsInRange ==
    LET rk == Range(ranked)
    IN /\ \A r \in rk :
             /\ ~r.nan
             /\ r.embDen > 0 /\ 0 <= r.embNorm /\ r.embNorm <= r.embDen
             /\ r.lexDen > 0 /\ 0 <= r.lexNorm /\ r.lexNorm <= r.lexDen
       /\ (\A r, q \in rk : r.embScore = q.embScore) =>
             /\ \A r \in rk : r.embNorm = 0
             /\ \A i, j \in 1..Len(ranked) :
                   i < j => \/ LexAndBoost(ranked[i]) > LexAndBoost(ranked[j])
                            \/ /\ LexAndBoost(ranked[i]) = LexAndBoost(ranked[j])
                               /\ ranked[i].pagina <= ranked[j].pagina
       /\ (\A r \in rk : r.lexScore = 0) => \A r \in rk : r.lexNorm = 0

\* no score of the ranking is NaN
NoNaN == \A i \in 1..Len(ranked) : ~ranked[i].nan

\* the same when every score is a number
NormsInRangeNoNaN == NoNaN => NormsInRange

\* all candidates share one embedding score and the lexical score decides
DegenerateRanking ==
    /\ pc = "chat" /\ Len(ranked) > 2 /\ NoNaN
    /\ \A i, j \in 1..Len(ranked) : ranked[i].embScore = ranked[j].embScore
    /\ \E i \in 1..Len(ranked) : ranked[i].lexNorm > 0

\* C24: finalScore = embWeight * embNorm + lexWeight * lexNorm + outlineBoost
\* with embWeight + lexWeight = 1, embWeight 0.8 and boost 0.3 in scoped
\* mode, 0.7 and 0.08 in global mode, boost 0 for a page outside the outline
\* result; in scoped mode an outline page ranks above a page outside it
\* with the same embNorm and lexNorm.
WeightedScore ==
    LET scoped == searchScope = "scoped"
        embWeight == IF scoped THEN 80 ELSE 70
        lexWeight == IF scoped THEN 20 ELSE 30
        boost(r) == IF ~r.inSummary THEN 0 ELSE IF scoped THEN 30 ELSE 8
    IN /\ \A i \in 1..Len(ranked) :
             LET r == ranked[i]
             IN /\ r.inSummary <=> r.pagina \in Range(pagesFromSummary)
                /\ ~r.nan =>
                      r.finalScore = embWeight * r.embNorm * r.lexDen
                                     + lexWeight * r.lexNorm * r.embDen
                                     + boost(r) * r.embDen * r.lexDen
       /\ scoped =>
             \A i, j \in 1..Len(ranked) :
                 (/\ ~ranked[i].nan /\ ~ranked[j].nan
                  /\ ranked[i].inSummary /\ ~ranked[j].inSummary
                  /\ ranked[i].embNorm = ranked[j].embNorm
                  /\ ranked[i].lexNorm = ranked[j].lexNorm) => i < j

\* scoped mode: an outline page and a page outside the outline result with
\* the same embNorm and lexNorm, where the page outside has the lower number
OutlinePageFirst ==
    /\ searchScope = "scoped"
    /\ \E i, j \in 1..Len(ranked) :
          /\ ~ranked[i].nan /\ ~ranked[j].nan
          /\ ranked[i].inSummary /\ ~ranked[j].inSummary
          /\ ranked[i].embNorm = ranked[j].embNorm
          /\ ranked[i].lexNorm = ranked[j].lexNorm
          /\ ranked[j].pagina < ranked[i].pagina
          /\ i < j

\* a streamed request with a question and without an error
StreamedNoError ==
    /\ wantsSSE(req)
    /\ "error" \notin Range(events)
    /\ ~res.failed

\* the events of an answer, from the book section to the end
SseBody ==
    <<"book", "typing:complementary", "complementary", "typing:premium", "premium", "done">>

\* C25 as stated: a streamed request with a non-empty question and no error
\* ends with exactly the events ready, book, typing(complementary),
\* complementary, typing(premium), premium, done, followed by res.end(), and
\* the dictionary lookup starts only after the book event.
SseEventsExact ==
    /\ calls.dict > 0 => "book" \in Range(events)
    /\ (StreamedNoError /\ pc = "done" /\ question # "") =>
          /\ events = <<"ready">> \o SseBody
          /\ res.ended

\* what precedes the book event: ready, then typing(book) when audio is
\* transcribed and typing(book) before the generation call
SsePreambles ==
    { <<"ready">>, <<"ready", "typing:book">>, <<"ready", "typing:book", "typing:book">> }

\* C25 amended: besides the typing(book) events written before the book
\* event, the events after ready are book, typing(complementary),
\* complementary, typing(premium), premium, done, in this order and once
\* each; the dictionary lookup starts with the book event, done is the last
\* event and res.end() follows it.
SseEventsInOrder ==
    StreamedNoError =>
        \E pre \in SsePreambles, k \in 0..Len(SseBody) :
            /\ events = pre \o SubSeq(SseBody, 1, k)
            /\ calls.dict = (IF k >= 1 THEN 1 ELSE 0)
            /\ res.ended <=> k = Len(SseBody)
            /\ (pc = "done" /\ question # "") => k = Len(SseBody)

\* an answer streamed to the end
AnswerStreamed ==
    /\ StreamedNoError /\ pc = "done"
    /\ res.book = "answer"
    /\ events = <<"ready", "typing:book">> \o SseBody

\* the not-found result streamed to the end, for an empty ranking and for
\* pages without text
NotFoundStreamed ==
    /\ StreamedNoError /\ pc = "done"
    /\ res.book = "notfound"
    /\ events = <<"ready">> \o SseBody

\* how often e occurs in the sequence s
Count(s, e) == Cardinality({i \in 1..Len(s) : s[i] = e})

\* C26: a request answered in streaming mode ends with one done event, the
\* last one, preceded by an error event when something failed, and then
\* res.end(); after the event-stream headers no other status and no JSON
\* body is sent, also when an exception is thrown after the stream opened.
StreamTerminates ==
    (wantsSSE(req) /\ pc = "done") =>
        /\ res.ended
        /\ events # <<>> /\ events[Len(events)] = "done"
        /\ Count(events, "done") = 1
        /\ "book" \notin Range(events) => "error" \in Range(events)
        /\ res.status = 200 /\ res.body = "none" /\ ~res.failed

\* the same for the requests that ask for the stream in the body or in the
\* Accept header
StreamTerminatesBodyOrAccept == (req.stream \/ req.accept) => StreamTerminates

\* the generation call of the request returned
GenerationSucceeded == "Resposta OpenAI: chat.completions.create" \in Range(logs)

\* C27: in JSON mode, when there is a page with text to answer from and the
\* generation call succeeds, the response has status 200 and the answer
\* with used_pages = limitedPages; it does not end with status 500.
JsonAnswerSent ==
    (pc = "done" /\ ~wantsSSE(req) /\ limitedPages # <<>> /\ GenerationSucceeded) =>
        /\ res.status = 200
        /\ res.body = "answer"
        /\ res.used_pages = limitedPages

\* global mode is the mode of an empty outline result: no candidate of a
\* request in global mode is an outline page
GlobalHasNoOutlinePage ==
    searchScope = "global" => \A i \in 1..Len(ranked) : ~ranked[i].inSummary

----------------------------------------------------------------------------
(* Properties of the library functions *)

Returned(fn) == pc = "unit_ret" /\ call.fn = fn

StrictlyAscending(s) == \A i \in 1..(Len(s) - 1) : s[i] < s[i + 1]

AbsDiff(a, b) == IF a < b THEN b - a ELSE a - b

\* C11: expandWithAdjacentPages returns a strictly ascending list holding
\* every selected page; any other page of it is a key of pageMap within
\* range of a selected page; with range 0 it is the selected set; selected
\* 10, 12 with range 1, page 11 present and 13 absent gives 10, 11, 12.
ExpandContract ==
    Returned("expandWithAdjacentPages") =>
        LET sel == Range(call.selectedPages)
        IN /\ StrictlyAscending(ret)
           /\ sel \subseteq Range(ret)
           /\ \A q \in Range(ret) \ sel :
                 /\ q \in DOMAIN call.pageMap
                 /\ \E p \in sel : AbsDiff(q, p) <= call.range
           /\ call.range = 0 => Range(ret) = sel
           /\ (call.selectedPages = <<10, 12>> /\ call.range = 1
                /\ 11 \in DOMAIN call.pageMap /\ 13 \notin DOMAIN call.pageMap)
              => ret = <<10, 11, 12>>

ExpandedExample ==
    /\ Returned("expandWithAdjacentPages")
    /\ call.selectedPages = <<10, 12>> /\ call.range = 1
    /\ 11 \in DOMAIN call.pageMap /\ 13 \notin DOMAIN call.pageMap
    /\ ret = <<10, 11, 12>>

\* rank score of page p in the call's ranked list, 0 without an entry
RankScore(p) ==
    IF \E i \in 1..Len(call.ranked) : call.ranked[i].pagina = p
    THEN call.ranked[CHOOSE i \in 1..Len(call.ranked) : call.ranked[i].pagina = p].finalScore
    ELSE 0

\* C12: the capped list has at most MAX_CONTEXT_PAGES pages; from a longer
\* list exactly MAX_CONTEXT_PAGES pages are kept, no removed page has a
\* higher rank score (0 for a page without a rank entry) than a kept page,
\* and the kept pages are in ascending page order; a list within the cap
\* is returned as it is.
CapContract ==
    Returned("limitedPages") =>
        LET given == Range(call.nonEmptyPages)
        IN /\ Len(ret) <= MAX_CONTEXT_PAGES
           /\ Len(call.nonEmptyPages) > MAX_CONTEXT_PAGES =>
                 /\ Len(ret) = MAX_CONTEXT_PAGES
                 /\ Range(ret) \subseteq given
                 /\ StrictlyAscending(ret)
                 /\ \A r \in given \ Range(ret), k \in Range(ret) :
                       RankScore(r) <= RankScore(k)
           /\ Len(call.nonEmptyPages) <= MAX_CONTEXT_PAGES => ret = call.nonEmptyPages

\* the cap removed a page with a lower score and a lower page number than a
\* page it kept
CappedWithRemoval ==
    /\ Returned("limitedPages")
    /\ Len(call.nonEmptyPages) > MAX_CONTEXT_PAGES
    /\ Len(ret) = MAX_CONTEXT_PAGES
    /\ \E r \in Range(call.nonEmptyPages) \ Range(ret), k \in Range(ret) :
          RankScore(r) < RankScore(k) /\ r < k

\* The entries of an outline named by their path: <<s, c>> is category c of
\* section s, <<s, c, t>> its topic t, <<s, c, t, u>> that topic's subtopic u.
Children(node, f) == IF IsNull(node) \/ f \notin DOMAIN node THEN <<>> ELSE node[f]

NodeAt(sum, path) ==
    LET cat == sum[path[1]].categorias[path[2]]
    IN IF Len(path) = 2 THEN cat
       ELSE IF Len(path) = 3 THEN cat.topicos[path[3]]
       ELSE cat.topicos[path[3]].subtopicos[path[4]]

CategoryPaths(sum) ==
    UNION { {<<s, c>> : c \in 1..Len(Children(sum[s], "categorias"))} : s \in 1..Len(sum) }

TopicPaths(sum) ==
    UNION { {Append(cp, t) : t \in 1..Len(Children(NodeAt(sum, cp), "topicos"))} :
            cp \in CategoryPaths(sum) }

SubtopicPaths(sum) ==
    UNION { {Append(tp, u) : u \in 1..Len(Children(NodeAt(sum, tp), "subtopicos"))} :
            tp \in TopicPaths(sum) }

EntryPaths(sum) == CategoryPaths(sum) \cup TopicPaths(sum) \cup SubtopicPaths(sum)

\* entries that carry a non-empty page list
PagedEntries(sum) ==
    {path \in EntryPaths(sum) : Len(Children(NodeAt(sum, path), "paginas")) > 0}

NullFree(sum) ==
    /\ \A s \in 1..Len(sum) : ~IsNull(sum[s])
    /\ \A path \in EntryPaths(sum) : ~IsNull(NodeAt(sum, path))

\* a comes before b in the traversal: a is an ancestor of b, or a is in an
\* earlier branch
PathBefore(a, b) ==
    \E k \in 1..Len(b) :
        /\ \A i \in 1..(k - 1) : i <= Len(a) /\ a[i] = b[i]
        /\ \/ Len(a) = k - 1
           \/ Len(a) >= k /\ a[k] < b[k]

\* the id an entry gets: the number of paged entries in front of it
EntryId(sum, path) == Cardinality({q \in PagedEntries(sum) : PathBefore(q, path)})

LevelOf(path) ==
    IF Len(path) = 2 THEN "categoria" ELSE IF Len(path) = 3 THEN "topico" ELSE "subtopico"

SummaryCalled == call.fn = "semanticSearchSummary" /\ pc \in {"unit_await", "unit_ret"}

\* the index and the returned pages are those of the outline's paged entries
IndexMatchesOutline ==
    LET sum == call.sumario
        paged == PagedEntries(sum)
        selected == {path \in paged : EntryId(sum, path) \in Range(call.reply.ids)}
    IN /\ Len(call.index) = Cardinality(paged)
       /\ \A path \in paged :
             call.index[EntryId(sum, path) + 1] =
                 [id |-> EntryId(sum, path), level |-> LevelOf(path),
                  count |-> Len(NodeAt(sum, path).paginas)]
       /\ (pc = "unit_ret" /\ call.reply.kind = "ids") =>
             /\ StrictlyAscending(ret.pages)
             /\ Range(ret.pages) = UNION {Range(NodeAt(sum, path).paginas) : path \in selected}

\* C16: the index has one record per category, topic and subtopic with a
\* non-empty page list (the others are left out), the id of a record is its
\* position in traversal order, and the pages returned are the union of the
\* page lists of the records whose id was selected, unique and ascending;
\* ids out of range add nothing.
FlattenAndCollect == SummaryCalled => IndexMatchesOutline

\* the same for the outlines without a null entry
FlattenAndCollectNullFree ==
    (SummaryCalled /\ NullFree(call.sumario)) => IndexMatchesOutline

\* ids 1 and 0 selected in an outline whose category and first topic have
\* pages and whose second topic has none: pages 1, 2, 3
CollectedOverlapping ==
    /\ SummaryCalled /\ pc = "unit_ret"
    /\ call.sumario = << [categorias |->
                            << [paginas |-> <<1, 2>>,
                                topicos |-> << [paginas |-> <<3, 2>>,
                                                subtopicos |-> << [paginas |-> <<4>>],
                                                                  [titulo |-> "s"] >>],
                                               [paginas |-> <<>>] >>] >>] >>
    /\ call.reply = [kind |-> "ids", ids |-> <<1, 0>>]
    /\ Len(call.index) = 3
    /\ ret.pages = <<1, 2, 3>>

\* C17: an outline entry that is malformed is left out on its own: whenever
\* some well-formed entry has pages, the index built from the outline is
\* not empty.
MalformedEntrySkipped ==
    (SummaryCalled /\ PagedEntries(call.sumario) # {}) => call.index # <<>>

\* C18: keyword matching gives the same pages for a permutation of the
\* outline's topics and subtopics as for the outline itself, the pages of the
\* curated RCP keys included.
SearchOrderIndependent ==
    Returned("searchSummary") => ret.first = ret.second

NoRepeats(seq) == \A i, j \in 1..Len(seq) : i # j => seq[i] # seq[j]

\* the re-ranking reply names no page of pageMap, or there is no reply
NoUsablePage == call.reply.kind # "pages" \/ Range(call.reply.pages) \cap call.keys = {}

\* C21: the re-ranking returns at most 5 pages, all of them ranked
\* candidates and none twice; when the call throws, the reply cannot be
\* parsed or names no usable page the result is the first min(5, n) pages of
\* the ranking; without re-ranking a non-empty ranking gives a non-empty
\* selection.
RerankSubsetOrFallback ==
    Returned("selectStage5") =>
        LET top == Slice(RankedPaginas(call.ranked), 5)
        IN /\ call.useGpt =>
                 /\ Len(ret.reranked) <= 5
                 /\ Range(ret.reranked) \subseteq Range(RankedPaginas(call.ranked))
                 /\ NoRepeats(ret.reranked)
                 /\ NoUsablePage => ret.reranked = top
           /\ (~call.useGpt /\ call.ranked # <<>>) => ret.selectedPages # <<>>

\* the same for the replies that name ranked pages only, each once
RerankOnRankedReplies ==
    (/\ Returned("selectStage5")
     /\ Range(call.reply.pages) \cap call.keys \subseteq Range(RankedPaginas(call.ranked))
     /\ NoRepeats(call.reply.pages)) => RerankSubsetOrFallback

RecommendFailed == call.fetch # "ok" \/ call.reply.kind = "throw"

\* C28: recommendFromDictionary returns at most DICT_MAX_RECOMMEND items,
\* each one of the at most DICT_MAX_CANDIDATES candidates and none twice;
\* the first min(3, n) candidates when the reply has no id of a candidate;
\* an empty list when the fetch or the call of the model fails.
RecommendWithinCandidates ==
    Returned("recommendFromDictionary") =>
        /\ Len(ret.raw) <= DICT_MAX_RECOMMEND
        /\ Len(call.candidates) <= DICT_MAX_CANDIDATES
        /\ Range(call.candidates) \subseteq Range(call.items)
        /\ Range(ret.raw) \subseteq Range(call.candidates)
        /\ NoRepeats(ret.raw)
        /\ RecommendFailed => ret.raw = <<>>
        /\ (/\ ~RecommendFailed
            /\ Range(call.reply.ids) \cap {c.id : c \in Range(call.candidates)} = {})
              => ret.raw = Slice(call.candidates, Min(3, Len(call.candidates)))

\* the same for the replies that name no id twice
RecommendOnDistinctIds ==
    (Returned("recommendFromDictionary") /\ NoRepeats(call.reply.ids))
        => RecommendWithinCandidates

\* C29: a response whose answer is not the not-found sentence carries 1 or
\* 2 citations, each naming a page of usedPages and a quote that occurs in
\* the text of that page; when the reply has no valid citation the response
\* is the not-found answer with no citation.
CitationsGrounded ==
    Returned("validateCitations") =>
        /\ ret.answer # NotFoundAnswer =>
              /\ Len(ret.citations) \in {1, 2}
              /\ \A i \in 1..Len(ret.citations) :
                    LET c == ret.citations[i]
                    IN /\ c.page \in Range(call.usedPages)
                       /\ c.quote # <<>>
                       /\ \E k \in 0..(Len(call.pageMap[c.page]) - Len(c.quote)) :
                             \A j \in 1..Len(c.quote) :
                                 call.pageMap[c.page][k + j] = c.quote[j]
        /\ (\A i \in 1..Len(call.reply.citations) :
                LET c == call.reply.citations[i]
                IN ~(c.page \in Range(call.usedPages) /\ c.quote # <<>>
                     /\ Includes(CitedText(call.pageMap, c.page), c.quote)))
              => (ret.answer = NotFoundAnswer /\ ret.citations = <<>>)

\* an answer returned with two citations out of a reply with an invalid
\* citation in front and a third valid one behind
AnswerWithTwoCitations ==
    /\ Returned("validateCitations")
    /\ ret.answer = "Resposta"
    /\ Len(ret.citations) = 2
    /\ Len(call.reply.citations) = 3
    /\ call.reply.citations[1].page = 12

----------------------------------------------------------------------------
(* Properties of the dictionary API *)

\* request p wrote the file
DictWrote(p) == dictReqs[p].status \in {200, 201} /\ dictReqs[p].method # "GET"

\* the stored dictionary shows what request p did
Reflected(p) ==
    LET r == dictReqs[p]
        idx == FindIndex(dictFile, r.id)
    IN IF r.method = "POST" THEN [id |-> genId(p), titulo |-> NewTitle(p)] \in Range(dictFile)
       ELSE IF r.method = "PUT" THEN idx # 0 /\ dictFile[idx].titulo = NewTitle(p)
       ELSE idx = 0

\* the two requests are two POSTs, or a POST and a PUT or DELETE
WritersOnDifferentItems ==
    /\ \A p \in DictProcs : dictReqs[p].pc = "done" /\ DictWrote(p)
    /\ \E p \in DictProcs : dictReqs[p].method = "POST"

\* C30: when two POSTs, or a POST and a PUT or DELETE, have both completed
\* successfully, the stored dictionary reflects both, however their loads
\* and saves interleave; a request that ends with 400 or 404 leaves the
\* stored dictionary as it was.
NoLostUpdate ==
    /\ WritersOnDifferentItems => \A p \in DictProcs : Reflected(p)
    /\ (\A p \in DictProcs : dictReqs[p].status \in {0, 400, 404, 405})
          => dictFile = <<[id |-> 1, titulo |-> "a"]>>

----------------------------------------------------------------------------
(* Properties of two chat requests in flight *)

\* what a request with question q, outline result out and query embedding v
\* ends with when it is the only one
AloneRun(q, out, v) ==
    LET sel == IsoSelection(q, out, v)
    IN [searchScope |-> IsoScope(out).searchScope,
        usedPages |-> sel.usedPages,
        context |-> sel.context,
        logs |-> ReceiveLog \o LoadLog \o ScopeLog(out) \o RankLog(sel)]

\* C22: whatever the interleaving of two requests at their awaits, the
\* scope, the used pages, the context and the logs a request ends with are
\* those of the same request running alone, and the log store of a request
\* holds nothing of the other request.
RequestsIsolated ==
    \A p \in IsoProcs :
        LET r == peers[p]
            alone == AloneRun(r.question, r.sumOut, r.queryEmb)
        IN /\ r.pc = "idle" => alsStores[p] = NoStore
           /\ (r.pc = "done" /\ r.body = "error") => r.logs = <<>>
           /\ (r.pc = "done" /\ r.body # "error") =>
                 /\ r.searchScope = alone.searchScope
                 /\ r.usedPages = alone.usedPages
                 /\ r.context = alone.context
                 /\ r.logs = alone.logs

\* two requests that took different paths, both answered while the other
\* was in flight
BothAnsweredInterleaved ==
    /\ \A p \in IsoProcs : peers[p].pc = "done"
    /\ peers[1].body = "answer" /\ peers[2].body = "notfound"
    /\ peers[1].searchScope # peers[2].searchScope
    /\ Len(alsStores[2].logs) < Len(alsStores[1].logs)
====
